---- MODULE Spec2Model ----
(***************************************************************************)
(* Model of the SO-ARM101 controller: the cyclic position math of          *)
(* normalization.py, the RecordingManager of recording.py, the            *)
(* CalibrationManager of calibration.py with its callers, the calls that   *)
(* read and write files, setup_motors and the slider handlers of           *)
(* web_app.py, and hold_current_positions_and_lock of motor_control.py.    *)
(*                                                                         *)
(* Python floats are modelled as exact rationals <<num, den>> with         *)
(* den > 0; int(x) of a non-negative float is the floor of the rational.   *)
(***************************************************************************)
EXTENDS Integers, Sequences, FiniteSets, TLC

VARIABLES
    \* ---- normalization.py: one call of a pure function ----
    pos_left, pos_right, pos_center,  \* the calibration the call is made with
    call,                             \* which function was called last
    arg,                              \* its first argument (raw_pos or normalized)
    distance,                         \* the callee's local `distance`: <<>> unset, <<d>> set
    ret,                              \* its return value
    \* ---- recording.py: the RecordingManager and its worker threads ----
    is_recording, is_playing,         \* self.is_recording, self.is_playing
    recorded_frames,                  \* the list self.recorded_frames is bound to
    sample_interval_ms,               \* self.sample_interval_ms, in clock ticks
    current_frame,                    \* self.current_frame
    threads,                          \* every thread started so far, with its locals
    now,                              \* time.monotonic(), in clock ticks
    written,                          \* the sync_write("Goal_Position") calls the bus received
    log,                              \* the last message passed to self.log
    \* ---- calibration.py and the calibration handlers of the two front ends ----
    frontend,                         \* which program runs: "gui" (robot_gui.py) or "web" (web_app.py)
    is_connected,                     \* the front end's is_connected
    calibrations,                     \* CalibrationManager.calibrations: joint name -> dict
    calibration_file,                 \* the file calibration.json
    calibration_data,                 \* the manual-calibration tab's slots, per joint; {} before
                                      \* the calibration window is opened
    cal,                              \* the auto-calibration thread and its locals
    bus,                              \* the single-motor writes the bus received
    calib_log,                        \* per joint, the outcome log_callback reported last
    \* ---- the files on disk and the calls that read and write them ----
    recording_file,                   \* the trajectory file a save or load is pointed at
    io,                               \* the last call that went to a file, and how it ended
    \* ---- web_app.py, POST /api/setup-motors ----
    servo_id,                         \* the ID each servo on the serial line holds now; a servo
                                      \* is named by the ID it held when the program started
    setup,                            \* the handler setup_motors and its locals
    \* ---- motor_control.py: hold_current_positions_and_lock ----
    present,                          \* where each motor stands: its Present_Position
    hold,                             \* the call and its locals
    \* ---- web_app.py: the sliders and the position-sender thread ----
    pending_positions,                \* app_state['pending_positions']: motor -> command
    position_sender_running,          \* app_state['position_sender_running']
    torque_enabled_for_sliders,       \* app_state['torque_enabled_for_sliders']
    senders,                          \* every send_positions thread started, with its locals
    commands                          \* history: what became of each slider command

normVars == <<pos_left, pos_right, pos_center, call, arg, distance, ret>>

recVars == <<is_recording, is_playing, recorded_frames, sample_interval_ms,
             current_frame, threads, now, written, log>>

calVars == <<frontend, is_connected, calibrations, calibration_file, calibration_data,
             cal, bus, calib_log>>

ioVars == <<recording_file, io>>

setupVars == <<servo_id, setup>>

holdVars == <<present, hold>>

sliderVars == <<pending_positions, position_sender_running, torque_enabled_for_sliders,
                senders, commands>>

extVars == <<ioVars, setupVars, holdVars, sliderVars>>

vars == <<normVars, recVars, calVars, extVars>>

-----------------------------------------------------------------------------
(* config.py *)

MAX_POS == 4096

-----------------------------------------------------------------------------
(* Bounds of the model *)

\* raw positions within MaxNear ticks of either end of the ring are inputs
MaxNear == 2
\* normalized inputs are the rationals p/q with 1 <= q <= MaxDen, -1 <= p <= q+1
MaxDen == 4

\* the raw positions the spec's examples use, plus the two ends of the ring
Positions ==
    (0 .. MaxNear) \cup ((MAX_POS - 1 - MaxNear) .. (MAX_POS - 1))
        \cup {50, 100, 1000, 2000, 3000, 4000, 4050}

Values == UNION { { <<p, q>> : p \in (-1) .. (q + 1) } : q \in 1 .. MaxDen }

\* threads started in one behaviour
MaxThreads == 2
\* frames a buffer holds before sampling stops
MaxFrames == 2
\* the clock stops at MaxTime ticks
MaxTime == 2
\* start_recording is called with an interval of 1 .. MaxInterval ticks
MaxInterval == 1
\* calibration batches started in one session
MaxRuns == 1
\* the operator captures and resets the first MaxManualJoints joints by hand
MaxManualJoints == 1
\* servo IDs run from 1 to MaxId (253 in the source)
MaxId == 4
\* a request to setup_motors carries at most MaxMappings changes
MaxMappings == 3
\* slider commands sent in one session
MaxCommands == 3
\* send_positions threads started in one session
MaxSenders == 2
\* calls of enable_sliders in one session
MaxEnables == 1

-----------------------------------------------------------------------------
(* Python float arithmetic, as exact rationals *)

\* max(0.0, min(1.0, x))
clamp01(x) ==
    IF x[1] < 0 THEN <<0, 1>>
    ELSE IF x[1] > x[2] THEN <<1, 1>>
    ELSE x

\* int(x) for a float x >= 0
int(x) == x[1] \div x[2]

RatEq(x, y) == x[1] * y[2] = y[1] * x[2]
RatLeq(x, y) == x[1] * y[2] <= y[1] * x[2]
\* |x - y| as a rational
RatAbsDiff(x, y) ==
    LET n == x[1] * y[2] - y[1] * x[2]
    IN  <<IF n < 0 THEN -n ELSE n, x[2] * y[2]>>

-----------------------------------------------------------------------------
(* normalization.py *)

\* get_path_info, step 1: does the direct path contain the center
direct_contains_center_centerless(pos_left_, pos_right_, pos_center_) ==
    TRUE

direct_contains_center(pos_left_, pos_right_, pos_center_) ==
    IF pos_left_ <= pos_right_
    THEN pos_left_ <= pos_center_ /\ pos_center_ <= pos_right_
    ELSE pos_left_ >= pos_center_ /\ pos_center_ >= pos_right_

\* get_path_info, the direct path: (total_range, direction, wraps)
direct_path_unsigned(pos_left_, pos_right_) ==
    IF pos_left_ <= pos_right_
    THEN <<pos_right_ - pos_left_, 1, FALSE>>
    ELSE <<pos_left_ - pos_right_, 1, FALSE>>

direct_path(pos_left_, pos_right_) ==
    IF pos_left_ <= pos_right_
    THEN <<pos_right_ - pos_left_, 1, FALSE>>
    ELSE <<pos_left_ - pos_right_, -1, FALSE>>

\* get_path_info, step 2: the path through 0
wrap_path_last_tick(pos_left_, pos_right_) ==
    IF pos_left_ <= pos_right_
    THEN <<pos_left_ + ((MAX_POS - 1) - pos_right_), -1, TRUE>>
    ELSE <<((MAX_POS - 1) - pos_left_) + pos_right_, 1, TRUE>>

wrap_path(pos_left_, pos_right_) ==
    IF pos_left_ <= pos_right_
    THEN <<pos_left_ + (MAX_POS - pos_right_), -1, TRUE>>
    ELSE <<(MAX_POS - pos_left_) + pos_right_, 1, TRUE>>

get_path_info(pos_left_, pos_right_, pos_center_) ==
    IF direct_contains_center(pos_left_, pos_right_, pos_center_)
    THEN direct_path(pos_left_, pos_right_)
    ELSE wrap_path(pos_left_, pos_right_)

detect_wrap_around(pos_left_, pos_right_, pos_center_) ==
    get_path_info(pos_left_, pos_right_, pos_center_)[3]

\* normalize_position: the local `distance` from left to raw_pos
normalize_distance_no_wrap(raw_pos_, pos_left_, direction, wraps) ==
    IF direction = 1 THEN raw_pos_ - pos_left_ ELSE pos_left_ - raw_pos_

normalize_distance(raw_pos_, pos_left_, direction, wraps) ==
    IF ~wraps
    THEN IF direction = 1 THEN raw_pos_ - pos_left_ ELSE pos_left_ - raw_pos_
    ELSE IF direction = 1
         THEN IF raw_pos_ >= pos_left_
              THEN raw_pos_ - pos_left_
              ELSE (MAX_POS - pos_left_) + raw_pos_
         ELSE IF raw_pos_ <= pos_left_
              THEN pos_left_ - raw_pos_
              ELSE pos_left_ + (MAX_POS - raw_pos_)

normalize_position(raw_pos_, pos_left_, pos_right_, pos_center_) ==
    LET info == get_path_info(pos_left_, pos_right_, pos_center_)
        total_range == info[1]
    IN  IF total_range = 0
        THEN <<1, 2>>
        ELSE clamp01(<<normalize_distance(raw_pos_, pos_left_, info[2], info[3]),
                       total_range>>)

\* denormalize_position: distance = int(normalized * total_range)
denormalize_distance_full_ring(normalized, total_range) ==
    int(<<normalized[1] * MAX_POS, normalized[2]>>)

denormalize_distance(normalized, total_range) ==
    int(<<normalized[1] * total_range, normalized[2]>>)

\* denormalize_position: walk `distance` from left, then reduce into the ring
denormalize_walk_no_wrap(pos_left_, dist, direction, wraps) ==
    IF direction = 1 THEN pos_left_ + dist ELSE pos_left_ - dist

denormalize_walk(pos_left_, dist, direction, wraps) ==
    LET raw == IF ~wraps
               THEN IF direction = 1 THEN pos_left_ + dist ELSE pos_left_ - dist
               ELSE IF direction = 1
                    THEN IF pos_left_ + dist >= MAX_POS
                         THEN pos_left_ + dist - MAX_POS
                         ELSE pos_left_ + dist
                    ELSE IF pos_left_ - dist < 0
                         THEN pos_left_ - dist + MAX_POS
                         ELSE pos_left_ - dist
    IN  raw % MAX_POS

denormalize_position(normalized, pos_left_, pos_right_, pos_center_) ==
    LET info == get_path_info(pos_left_, pos_right_, pos_center_)
        total_range == info[1]
    IN  IF total_range = 0
        THEN pos_left_
        ELSE denormalize_walk(pos_left_,
                              denormalize_distance(clamp01(normalized), total_range),
                              info[2], info[3])

-----------------------------------------------------------------------------
(* config.py: the motors of the arm.  Two of the six are modelled. *)

MOTOR_IDS == {1, 2}

(* recording.py *)

\* what sync_read("Present_Position") can return: every motor's position, or
\* a dict that lacks motor 1; raising an exception is a separate outcome
SyncReadResults ==
    { [m \in MOTOR_IDS |-> 1000], [m \in MOTOR_IDS \ {1} |-> 3000] }

\* the "frames" of the trajectory files load_recording can read.  A frame is
\* {"t": ..., "pos": ...}; `by` is history: the thread that sampled it, 0 for
\* a frame read from a file
RecordingFiles ==
    { <<>>,
      << [t |-> 0, pos |-> [m \in MOTOR_IDS |-> 2000], by |-> 0],
         [t |-> 1, pos |-> [m \in MOTOR_IDS \ {1} |-> 4000], by |-> 0] >> }

\* frame["pos"]: int(positions.get(name, 0)) for every motor
frame_pos(positions) ==
    [m \in MOTOR_IDS |-> IF m \in DOMAIN positions THEN positions[m] ELSE 0]

\* every joint gets the default, whatever the frame holds
positions_dict_all_default(frame) ==
    [m \in MOTOR_IDS |-> 2048]

\* positions_dict: int(frame['pos'].get(str(id), 2048)) for every motor
positions_dict(frame) ==
    [m \in MOTOR_IDS |-> IF m \in DOMAIN frame.pos THEN frame.pos[m] ELSE 2048]

\* a thread that has returned, or the locals of one that has not started its body.
\* `stopped` is history: stop_recording / stop_playback was called while the
\* thread's loop was running
NoThread ==
    [kind |-> "none", pc |-> "done", t0 |-> 0, interval |-> 0, frame |-> <<>>,
     i |-> 0, aliased |-> FALSE, frames |-> <<>>, base_t |-> 0, wake |-> 0,
     stopped |-> FALSE]

RecordingManager_init ==
    /\ is_recording = FALSE
    /\ is_playing = FALSE
    /\ recorded_frames = <<>>
    /\ sample_interval_ms = 1
    /\ current_frame = 0
    /\ threads = <<>>
    /\ now = 0
    /\ written = <<>>
    /\ log = ""

\* self.recorded_frames = <new list>: a play_thread whose `frames` is the old
\* list keeps that list, which nothing can reach any more
rebind_frames(ths, old) ==
    [k \in DOMAIN ths |->
        IF ths[k].aliased
        THEN [ths[k] EXCEPT !.aliased = FALSE, !.frames = old]
        ELSE ths[k]]

\* the list a play_thread iterates over
thread_frames(th) == IF th.aliased THEN recorded_frames ELSE th.frames

Alive(k) == threads[k].pc # "done"

\* history: the running loops of `kind` have been told to stop
mark_stopped(ths, kind) ==
    [k \in DOMAIN ths |->
        IF ths[k].kind = kind /\ ths[k].pc # "done"
        THEN [ths[k] EXCEPT !.stopped = TRUE]
        ELSE ths[k]]

start_recording(interval) ==
    /\ Len(threads) < MaxThreads
    /\ is_recording' = TRUE
    /\ recorded_frames' = <<>>
    /\ sample_interval_ms' = interval
    /\ threads' = Append(rebind_frames(threads, recorded_frames),
                         [NoThread EXCEPT !.kind = "record", !.pc = "r_start",
                                          !.interval = interval])
    /\ log' = "recording_started"
    /\ UNCHANGED <<normVars, calVars, extVars, is_playing, current_frame, now, written>>

stop_recording ==
    /\ is_recording' = FALSE
    /\ threads' = mark_stopped(threads, "record")
    /\ UNCHANGED <<normVars, calVars, extVars, is_playing, recorded_frames, sample_interval_ms, current_frame,
                   now, written, log>>

load_recording(file) ==
    /\ recorded_frames' = file
    /\ threads' = rebind_frames(threads, recorded_frames)
    /\ log' = "loaded"
    /\ UNCHANGED <<normVars, calVars, extVars, is_recording, is_playing, sample_interval_ms, current_frame,
                   now, written>>

\* play_recording without the test of the buffer
play_recording_unchecked ==
    /\ Len(threads) < MaxThreads
    /\ is_playing' = TRUE
    /\ current_frame' = 0
    /\ threads' = Append(threads, [NoThread EXCEPT !.kind = "play", !.pc = "p_start"])
    /\ log' = "playing"
    /\ UNCHANGED <<normVars, calVars, extVars, is_recording, recorded_frames,
                   sample_interval_ms, now, written>>

play_recording ==
    IF recorded_frames = <<>>
    THEN /\ log' = "no_recording"
         /\ UNCHANGED <<normVars, calVars, extVars, is_recording, is_playing, recorded_frames,
                        sample_interval_ms, current_frame, threads, now, written>>
    ELSE /\ Len(threads) < MaxThreads
         /\ is_playing' = TRUE
         /\ current_frame' = 0
         /\ threads' = Append(threads, [NoThread EXCEPT !.kind = "play", !.pc = "p_start"])
         /\ log' = "playing"
         /\ UNCHANGED <<normVars, calVars, extVars, is_recording, recorded_frames, sample_interval_ms, now, written>>

\* the flag is cleared and the frame counter is left where it is
stop_playback_keeps_frame ==
    /\ is_playing' = FALSE
    /\ threads' = mark_stopped(threads, "play")
    /\ UNCHANGED <<normVars, calVars, extVars, is_recording, recorded_frames, sample_interval_ms,
                   current_frame, now, written, log>>

stop_playback ==
    /\ is_playing' = FALSE
    /\ current_frame' = 0
    /\ threads' = mark_stopped(threads, "play")
    /\ UNCHANGED <<normVars, calVars, extVars, is_recording, recorded_frames, sample_interval_ms,
                   now, written, log>>

\* ---- record_thread ----

\* t0 = time.monotonic(); interval = sample_interval_ms / 1000.0
record_thread_start(k) ==
    /\ threads[k].pc = "r_start"
    /\ threads' = [threads EXCEPT ![k].t0 = now, ![k].wake = now, ![k].pc = "r_check"]
    /\ UNCHANGED <<normVars, calVars, extVars, is_recording, is_playing, recorded_frames, sample_interval_ms,
                   current_frame, now, written, log>>

\* (time.sleep(interval) returns;) while self.is_recording; after the loop the
\* frame count is logged
record_thread_check(k) ==
    /\ threads[k].pc = "r_check"
    /\ now >= threads[k].wake
    /\ threads' = [threads EXCEPT ![k] =
                      IF is_recording THEN [@ EXCEPT !.pc = "r_read"] ELSE NoThread]
    /\ log' = IF is_recording THEN log ELSE "recording_done"
    /\ UNCHANGED <<normVars, calVars, extVars, is_recording, is_playing, recorded_frames, sample_interval_ms,
                   current_frame, now, written>>

\* positions = sync_read(...); t = time.monotonic() - t0; frame = {...}
record_thread_read(k) ==
    /\ threads[k].pc = "r_read"
    /\ Len(recorded_frames) < MaxFrames
    /\ now <= MaxTime
    /\ \E positions \in SyncReadResults :
          threads' = [threads EXCEPT
                         ![k].frame = << [t |-> now - threads[k].t0,
                                          pos |-> frame_pos(positions),
                                          by |-> k] >>,
                         ![k].pc = "r_append"]
    /\ UNCHANGED <<normVars, calVars, extVars, is_recording, is_playing, recorded_frames, sample_interval_ms,
                   current_frame, now, written, log>>

\* sync_read raises and the exception escapes the loop: the thread dies
record_thread_read_fails_ends(k) ==
    /\ threads[k].pc = "r_read"
    /\ now + threads[k].interval <= MaxTime
    /\ threads' = [threads EXCEPT ![k] = NoThread]
    /\ UNCHANGED <<normVars, calVars, extVars, is_recording, is_playing, recorded_frames, sample_interval_ms,
                   current_frame, now, written, log>>

\* sync_read raises: except Exception: pass; then time.sleep(interval)
record_thread_read_fails(k) ==
    /\ threads[k].pc = "r_read"
    /\ now + threads[k].interval <= MaxTime
    /\ threads' = [threads EXCEPT ![k].wake = now + threads[k].interval,
                                  ![k].pc = "r_check"]
    /\ UNCHANGED <<normVars, calVars, extVars, is_recording, is_playing, recorded_frames, sample_interval_ms,
                   current_frame, now, written, log>>

\* self.recorded_frames.append(frame); then time.sleep(interval)
record_thread_append(k) ==
    /\ threads[k].pc = "r_append"
    /\ Len(recorded_frames) < MaxFrames
    /\ now + threads[k].interval <= MaxTime
    /\ recorded_frames' = Append(recorded_frames, threads[k].frame[1])
    /\ threads' = [threads EXCEPT ![k].frame = <<>>,
                                  ![k].wake = now + threads[k].interval,
                                  ![k].pc = "r_check"]
    /\ UNCHANGED <<normVars, calVars, extVars, is_recording, is_playing, sample_interval_ms, current_frame,
                   now, written, log>>

\* ---- play_thread ----

\* frames = self.recorded_frames; t0 = time.monotonic(); base_t = ...
play_thread_start(k) ==
    /\ threads[k].pc = "p_start"
    /\ threads' = [threads EXCEPT
                      ![k].aliased = TRUE,
                      ![k].t0 = now,
                      ![k].base_t = IF recorded_frames # <<>>
                                    THEN recorded_frames[1].t ELSE 0,
                      ![k].pc = "p_iter"]
    /\ UNCHANGED <<normVars, calVars, extVars, is_recording, is_playing, recorded_frames, sample_interval_ms,
                   current_frame, now, written, log>>

\* for i, frame in enumerate(frames): if not self.is_playing: break
play_thread_iter(k) ==
    /\ threads[k].pc = "p_iter"
    /\ threads' = [threads EXCEPT ![k].pc =
                      IF threads[k].i < Len(thread_frames(threads[k])) /\ is_playing
                      THEN "p_setcur" ELSE "p_end"]
    /\ UNCHANGED <<normVars, calVars, extVars, is_recording, is_playing, recorded_frames, sample_interval_ms,
                   current_frame, now, written, log>>

\* the frame counter runs one ahead
play_thread_set_current_ahead(k) ==
    /\ threads[k].pc = "p_setcur"
    /\ current_frame' = threads[k].i + 2
    /\ threads' = [threads EXCEPT
                      ![k].wake = threads[k].t0
                          + (thread_frames(threads[k])[threads[k].i + 1].t
                             - threads[k].base_t),
                      ![k].pc = "p_write"]
    /\ UNCHANGED <<normVars, calVars, extVars, is_recording, is_playing, recorded_frames, sample_interval_ms,
                   now, written, log>>

\* self.current_frame = i + 1; target_time = t0 + (frame['t'] - base_t)
play_thread_set_current(k) ==
    /\ threads[k].pc = "p_setcur"
    /\ current_frame' = threads[k].i + 1
    /\ threads' = [threads EXCEPT
                      ![k].wake = threads[k].t0
                          + (thread_frames(threads[k])[threads[k].i + 1].t
                             - threads[k].base_t),
                      ![k].pc = "p_write"]
    /\ UNCHANGED <<normVars, calVars, extVars, is_recording, is_playing, recorded_frames, sample_interval_ms,
                   now, written, log>>

\* the write is issued without waiting for target_time
play_thread_write_early(k) ==
    /\ threads[k].pc = "p_write"
    /\ written' = Append(written,
                         [by |-> k,
                          pos |-> positions_dict(
                                      thread_frames(threads[k])[threads[k].i + 1])])
    /\ threads' = [threads EXCEPT ![k].i = @ + 1, ![k].pc = "p_iter"]
    /\ UNCHANGED <<normVars, calVars, extVars, is_recording, is_playing, recorded_frames, sample_interval_ms,
                   current_frame, now, log>>

\* wait_time = target_time - time.monotonic(); sleep while it is positive;
\* self.motors.sync_write("Goal_Position", positions_dict, normalize=False)
play_thread_write(k) ==
    /\ threads[k].pc = "p_write"
    /\ now >= threads[k].wake
    /\ written' = Append(written,
                         [by |-> k,
                          pos |-> positions_dict(
                                      thread_frames(threads[k])[threads[k].i + 1])])
    /\ threads' = [threads EXCEPT ![k].i = @ + 1, ![k].pc = "p_iter"]
    /\ UNCHANGED <<normVars, calVars, extVars, is_recording, is_playing, recorded_frames, sample_interval_ms,
                   current_frame, now, log>>

\* sync_write raises, the error is logged and the loop goes on to the next frame
play_thread_write_fails_continues(k) ==
    /\ threads[k].pc = "p_write"
    /\ now >= threads[k].wake
    /\ threads' = [threads EXCEPT ![k].i = @ + 1, ![k].pc = "p_iter"]
    /\ log' = "write_error"
    /\ UNCHANGED <<normVars, calVars, extVars, is_recording, is_playing, recorded_frames, sample_interval_ms,
                   current_frame, now, written>>

\* the same, and sync_write raises: log the error; break
play_thread_write_fails(k) ==
    /\ threads[k].pc = "p_write"
    /\ now >= threads[k].wake
    /\ threads' = [threads EXCEPT ![k].pc = "p_end"]
    /\ log' = "write_error"
    /\ UNCHANGED <<normVars, calVars, extVars, is_recording, is_playing, recorded_frames, sample_interval_ms,
                   current_frame, now, written>>

\* self.is_playing = False; self.current_frame = 0
play_thread_end(k) ==
    /\ threads[k].pc = "p_end"
    /\ is_playing' = FALSE
    /\ current_frame' = 0
    /\ threads' = [threads EXCEPT ![k] = NoThread]
    /\ log' = "playback_done"
    /\ UNCHANGED <<normVars, calVars, extVars, is_recording, recorded_frames, sample_interval_ms, now, written>>

\* the monotonic clock advances: up to MaxTime, and beyond it for as long as a
\* play_thread sleeps until its target_time
Tick ==
    /\ \/ now < MaxTime
       \/ \E k \in DOMAIN threads :
              threads[k].pc = "p_write" /\ threads[k].wake > now
    /\ now' = now + 1
    /\ UNCHANGED <<normVars, calVars, extVars, is_recording, is_playing, recorded_frames, sample_interval_ms,
                   current_frame, threads, written, log>>

-----------------------------------------------------------------------------
(* calibration.py: the CalibrationManager, its file, and the handlers of    *)
(* robot_gui.py and web_app.py that write its store.  Python dicts are      *)
(* functions on their key set.                                              *)

\* config.py: the first joints of MOTOR_NAMES; MOTOR_IDS[i] = i
MOTOR_NAMES == <<"shoulder_pan", "shoulder_lift">>
Joints == { MOTOR_NAMES[i] : i \in DOMAIN MOTOR_NAMES }

\* the joints the operator calibrates by hand
ManualJoints == { MOTOR_NAMES[i] : i \in 1 .. MaxManualJoints }

\* MOTOR_IDS[MOTOR_NAMES.index(motor_name)]
motor_id_of(motor_name) ==
    CHOOSE i \in DOMAIN MOTOR_NAMES : MOTOR_NAMES[i] = motor_name

\* Python's None, as a value no register and no id can take
None == 0 - 1

\* the raw positions a Present_Position read may return during manual capture
ReadValues == {100, 2050, 4000}

\* {}, d[k] = v, del d[k], d.get(k)
EmptyDict == [k \in {} |-> None]
dict_set(d, key, v) == [k \in DOMAIN d \cup {key} |-> IF k = key THEN v ELSE d[k]]
dict_del(d, key) == [k \in DOMAIN d \ {key} |-> d[k]]
dict_get(d, key) == IF key \in DOMAIN d THEN d[key] ELSE None

\* the slot keys 'pos_left', 'pos_right', 'pos_center'
Slots == {"pos_left", "pos_right", "pos_center"}

\* the dicts the handlers build
three_point(motor_id, left, right, center) ==
    [k \in {"motor_id"} \cup Slots |->
        CASE k = "motor_id" -> motor_id
          [] k = "pos_left" -> left
          [] k = "pos_right" -> right
          [] k = "pos_center" -> center]
min_max(motor_id, min_pos, max_pos) ==
    [k \in {"motor_id", "min_position", "max_position"} |->
        CASE k = "motor_id" -> motor_id
          [] k = "min_position" -> min_pos
          [] k = "max_position" -> max_pos]
empty_slots ==
    [k \in Slots \cup {"is_done"} |-> IF k = "is_done" THEN FALSE ELSE None]

\* the file: absent, or the JSON text json.dump wrote (None <-> null)
NoFile == [kind |-> "missing", data |-> EmptyDict]
json_file(data) == [kind |-> "json", data |-> data]

\* the calibration files a session may find when it connects
CalibrationFiles ==
    { NoFile,
      json_file(EmptyDict),
      json_file(dict_set(dict_set(EmptyDict,
                    "shoulder_pan", min_max(1, 100, 4000)),
                    "shoulder_lift", three_point(2, 4000, 100, 50))),
      json_file(dict_set(dict_set(dict_set(EmptyDict,
                    "shoulder_pan", three_point(1, 4000, 100, 50)),
                    "shoulder_lift", dict_set(min_max(2, 100, 4000), "pos_center", 3000)),
                    "unknown_joint", three_point(7, 100, 4000, 2050))),
      json_file(dict_set(EmptyDict, "shoulder_lift", three_point(2, 100, None, None))) }

\* load_calibration_from_file, one entry: the three slots after the legacy
\* fall-backs
entry_left(calib_data) ==
    IF dict_get(calib_data, "pos_left") = None /\ "min_position" \in DOMAIN calib_data
    THEN calib_data["min_position"] ELSE dict_get(calib_data, "pos_left")
entry_right(calib_data) ==
    IF dict_get(calib_data, "pos_right") = None /\ "max_position" \in DOMAIN calib_data
    THEN calib_data["max_position"] ELSE dict_get(calib_data, "pos_right")
\* the center if every load took the midpoint of left and right
entry_center_always_midpoint(calib_data) ==
    IF entry_left(calib_data) # None /\ entry_right(calib_data) # None
    THEN (entry_left(calib_data) + entry_right(calib_data)) \div 2
    ELSE dict_get(calib_data, "pos_center")
entry_center(calib_data) ==
    IF /\ dict_get(calib_data, "pos_center") = None
       /\ entry_left(calib_data) # None
       /\ entry_right(calib_data) # None
    THEN (entry_left(calib_data) + entry_right(calib_data)) \div 2
    ELSE dict_get(calib_data, "pos_center")
entry_complete(calib_data) ==
    /\ dict_get(calib_data, "motor_id") # None
    /\ entry_left(calib_data) # None
    /\ entry_right(calib_data) # None
    /\ entry_center(calib_data) # None

\* the same loop without the test of the joint name
loaded_store_any_name(store, loaded_calibrations) ==
    [motor_name \in DOMAIN store \cup
                    { n \in DOMAIN loaded_calibrations :
                          entry_complete(loaded_calibrations[n]) } |->
        IF /\ motor_name \in DOMAIN loaded_calibrations
           /\ entry_complete(loaded_calibrations[motor_name])
        THEN three_point(loaded_calibrations[motor_name]["motor_id"],
                         entry_left(loaded_calibrations[motor_name]),
                         entry_right(loaded_calibrations[motor_name]),
                         entry_center(loaded_calibrations[motor_name]))
        ELSE store[motor_name]]

\* the store after the loop of load_calibration_from_file over the file's entries
loaded_store(store, loaded_calibrations) ==
    [motor_name \in DOMAIN store \cup
                    { n \in DOMAIN loaded_calibrations \cap Joints :
                          entry_complete(loaded_calibrations[n]) } |->
        IF /\ motor_name \in DOMAIN loaded_calibrations
           /\ entry_complete(loaded_calibrations[motor_name])
        THEN three_point(loaded_calibrations[motor_name]["motor_id"],
                         entry_left(loaded_calibrations[motor_name]),
                         entry_right(loaded_calibrations[motor_name]),
                         entry_center(loaded_calibrations[motor_name]))
        ELSE store[motor_name]]

\* the auto-calibration thread when it does not run.  min_history and
\* max_history are positions_history as it was when calib_min and calib_max
\* were taken from it
NoCal ==
    [pc |-> "idle", motors |-> <<>>, calib_min |-> None, calib_max |-> None, runs |-> 0,
     min_history |-> <<>>, max_history |-> <<>>]

\* before the front end connects
CalibrationManager_init ==
    /\ frontend \in {"gui", "web"}
    /\ is_connected = FALSE
    /\ calibrations = EmptyDict
    /\ calibration_file \in CalibrationFiles
    /\ calibration_data = EmptyDict
    /\ cal = NoCal
    /\ bus = <<>>
    /\ calib_log = [n \in Joints |-> "none"]

\* the other specifications leave the calibration side in one fixed state
CalibrationManager_unused ==
    /\ frontend = "gui"
    /\ is_connected = FALSE
    /\ calibrations = EmptyDict
    /\ calibration_file = NoFile
    /\ calibration_data = EmptyDict
    /\ cal = NoCal
    /\ bus = <<>>
    /\ calib_log = [n \in Joints |-> "none"]

\* connect: CalibrationManager(...) and load_calibration_from_file()
connect ==
    /\ ~is_connected
    /\ is_connected' = TRUE
    /\ calibrations' =
          IF calibration_file.kind = "missing" \/ calibration_file.data = EmptyDict
          THEN EmptyDict
          ELSE loaded_store(EmptyDict, calibration_file.data)
    /\ UNCHANGED <<normVars, recVars, extVars, frontend, calibration_file, calibration_data,
                   cal, bus, calib_log>>

\* the file if the dump wrote every record in the legacy shape, motor_id with
\* min_position and max_position
save_calibration_min_max(store) ==
    json_file([n \in DOMAIN store |->
                  min_max(store[n]["motor_id"], store[n]["pos_left"], store[n]["pos_right"])])
\* save_calibration_to_file: json.dump(self.calibrations) over the whole file
save_calibration_to_file(store) == json_file(store)

\* web_app.py, POST /api/calibration/manual: read Present_Position (an
\* exception answers 400 and changes nothing), create the joint's dict with
\* three None slots if the store has none, set the slot, write the file
calibrate_manual(motor_name, position_type) ==
    /\ frontend = "web" /\ is_connected
    /\ \/ \E pos_int \in ReadValues :
            LET existing == IF motor_name \in DOMAIN calibrations
                            THEN calibrations[motor_name]
                            ELSE three_point(motor_id_of(motor_name), None, None, None)
                store == dict_set(calibrations, motor_name,
                                  dict_set(existing, position_type, pos_int))
            IN  /\ calibrations' = store
                /\ calibration_file' = save_calibration_to_file(store)
       \/ UNCHANGED <<calibrations, calibration_file>>
    /\ UNCHANGED <<normVars, recVars, extVars, frontend, is_connected, calibration_data,
                   cal, bus, calib_log>>

\* robot_gui.py, check_calibration_complete: data is the joint's slots
slots_complete(data) ==
    data["pos_left"] # None /\ data["pos_right"] # None /\ data["pos_center"] # None

\* robot_gui.py, record_position: read Present_Position (an exception shows an
\* error box and returns), set the slot, then check_calibration_complete: with
\* the three slots set, store the joint's 3-point dict and write the file
record_position(motor_name, position_type) ==
    /\ frontend = "gui" /\ is_connected /\ calibration_data # EmptyDict
    /\ \/ \E pos_int \in ReadValues :
            LET data == dict_set(calibration_data[motor_name], position_type, pos_int)
                store == dict_set(calibrations, motor_name,
                                  three_point(motor_id_of(motor_name), data["pos_left"],
                                              data["pos_right"], data["pos_center"]))
            IN  IF slots_complete(data)
                THEN /\ calibration_data' =
                            [calibration_data EXCEPT
                                ![motor_name] = dict_set(data, "is_done", TRUE)]
                     /\ calibrations' = store
                     /\ calibration_file' = save_calibration_to_file(store)
                ELSE /\ calibration_data' = [calibration_data EXCEPT ![motor_name] = data]
                     /\ UNCHANGED <<calibrations, calibration_file>>
       \/ UNCHANGED <<calibrations, calibration_file, calibration_data>>
    /\ UNCHANGED <<normVars, recVars, extVars, frontend, is_connected, cal, bus, calib_log>>

\* robot_gui.py, reset_motor_calibration: clear the slots, del the store's entry
reset_motor_calibration(motor_name) ==
    /\ frontend = "gui" /\ is_connected /\ calibration_data # EmptyDict
    /\ calibration_data' = [calibration_data EXCEPT ![motor_name] = empty_slots]
    /\ calibrations' = dict_del(calibrations, motor_name)
    /\ UNCHANGED <<normVars, recVars, extVars, frontend, is_connected, calibration_file,
                   cal, bus, calib_log>>

\* robot_gui.py, _setup_manual_calibration, one joint's slots when the tab is
\* built: the non-None slots of the store's entry
existing_slots(store, motor_name) ==
    [k \in Slots \cup {"is_done"} |->
        IF k = "is_done"
        THEN /\ motor_name \in DOMAIN store
             /\ \A s \in Slots : dict_get(store[motor_name], s) # None
        ELSE IF motor_name \in DOMAIN store
             THEN dict_get(store[motor_name], k) ELSE None]

\* robot_gui.py, run_calibrate and _setup_manual_calibration: the calibration
\* window is opened and its manual tab built; each joint the store holds takes
\* its slots from it and check_calibration_complete stores and persists the
\* joints that are complete
setup_manual_calibration ==
    /\ frontend = "gui" /\ is_connected
    /\ calibration_data' = [n \in Joints |-> existing_slots(calibrations, n)]
    /\ LET done == { n \in DOMAIN calibrations :
                        existing_slots(calibrations, n)["is_done"] }
           store == [n \in DOMAIN calibrations |->
                        IF n \in done
                        THEN three_point(motor_id_of(n),
                                         calibrations[n]["pos_left"],
                                         calibrations[n]["pos_right"],
                                         calibrations[n]["pos_center"])
                        ELSE calibrations[n]]
       IN  /\ calibrations' = store
           /\ calibration_file' = IF done = {} THEN calibration_file
                                  ELSE save_calibration_to_file(store)
    /\ UNCHANGED <<normVars, recVars, extVars, frontend, is_connected, cal, bus, calib_log>>

\* ---- the auto-calibration thread ----

\* ten consecutive Present_Position samples: settled at v, or still moving
\* during the first five
SettledAt(v) == [n \in 1 .. 10 |-> v]
Settling(v) == [n \in 1 .. 10 |-> IF n <= 5 THEN v + 500 ELSE IF n <= 8 THEN v ELSE v + 1]
MinSamples == { Settling(100) }
MaxSamples == { Settling(4000), SettledAt(100), SettledAt(50) }

\* the joint lists a calibration batch may be started with
AutoBatches ==
    { <<"shoulder_pan", "shoulder_lift">>, <<"shoulder_lift">>,
      <<"unknown_joint", "shoulder_pan">> }

\* the average of all the samples, the ones taken while the joint still moves
\* included
all_samples_average(positions_history) ==
    (positions_history[1] + positions_history[2] + positions_history[3]
     + positions_history[4] + positions_history[5] + positions_history[6]
     + positions_history[7] + positions_history[8] + positions_history[9]
     + positions_history[10]) \div 10

\* int(sum(positions_history[-5:]) / 5)
last5_average(positions_history) ==
    (positions_history[6] + positions_history[7] + positions_history[8]
     + positions_history[9] + positions_history[10]) \div 5

\* the thread at the joint it calibrates
cal_motor == cal.motors[1]

\* a bus write the thread issues
bus_write(register, value) ==
    Append(bus, [register |-> register, motor |-> cal_motor, value |-> value])

\* calibrate_motor_auto has returned: the thread gives up the rest of the batch
next_motor_ends_batch ==
    [cal EXCEPT !.motors = <<>>,
                !.calib_min = None, !.calib_max = None,
                !.min_history = <<>>, !.max_history = <<>>,
                !.pc = IF frontend = "web" THEN "final_save" ELSE "idle"]

\* calibrate_motor_auto has returned for the joint: on to the next joint of
\* the batch; after the last one web_app.py writes the file once more
next_motor ==
    [cal EXCEPT !.motors = Tail(cal.motors),
                !.calib_min = None, !.calib_max = None,
                !.min_history = <<>>, !.max_history = <<>>,
                !.pc = IF Len(cal.motors) > 1 THEN "measure"
                       ELSE IF frontend = "web" THEN "final_save" ELSE "idle"]

\* the handler of calibrate_motor_auto's try: log the error, return False
auto_fails ==
    /\ cal' = next_motor
    /\ calib_log' = [calib_log EXCEPT ![cal_motor] = "error"]
    /\ UNCHANGED <<normVars, recVars, extVars, frontend, is_connected, calibrations,
                   calibration_file, calibration_data, bus>>

\* web_app.py, POST /api/calibration/auto: start calibration_thread on the
\* requested joints; names that are not joints are skipped
calibrate_auto(motors) ==
    /\ frontend = "web" /\ is_connected
    /\ cal.pc = "idle" /\ cal.runs < MaxRuns
    /\ LET known == SelectSeq(motors, LAMBDA n : n \in Joints)
       IN  cal' = [cal EXCEPT !.motors = known, !.runs = @ + 1,
                              !.pc = IF known = <<>> THEN "final_save" ELSE "measure"]
    /\ UNCHANGED <<normVars, recVars, extVars, frontend, is_connected, calibrations,
                   calibration_file, calibration_data, bus, calib_log>>

\* robot_gui.py, start_calibration: the button is disabled while calib_thread
\* runs; the thread first reads every selected joint and keeps those that answer
start_calibration(motors_to_calib) ==
    /\ frontend = "gui" /\ is_connected /\ calibration_data # EmptyDict
    /\ cal.pc = "idle" /\ cal.runs < MaxRuns
    /\ \A n \in 1 .. Len(motors_to_calib) : motors_to_calib[n] \in Joints
    /\ \E responding \in SUBSET Joints :
          LET responding_motors == SelectSeq(motors_to_calib, LAMBDA n : n \in responding)
          IN  cal' = [cal EXCEPT !.motors = responding_motors, !.runs = @ + 1,
                                 !.pc = IF responding_motors = <<>> THEN "idle"
                                        ELSE "measure"]
    /\ UNCHANGED <<normVars, recVars, extVars, frontend, is_connected, calibrations,
                   calibration_file, calibration_data, bus, calib_log>>

\* the bus writes of steps 1 to 4, in the order the code issues them
measure_writes == << <<"Torque_Enable", 1>>, <<"Goal_Position", 0>>, <<"Goal_Position", 4095>> >>

\* the bus after the first n of those writes for the thread's joint
bus_after(n) ==
    bus \o [w \in 1 .. n |-> [register |-> measure_writes[w][1], motor |-> cal_motor,
                              value |-> measure_writes[w][2]]]

\* the same without step 5: whatever was sampled is stored
auto_measure_unvalidated ==
    /\ cal.pc = "measure"
    /\ \/ \E issued \in 0 .. 3 :
            /\ bus' = bus_after(issued)
            /\ cal' = next_motor
            /\ calib_log' = [calib_log EXCEPT ![cal_motor] = "error"]
            /\ UNCHANGED <<normVars, recVars, extVars, frontend, is_connected, calibrations,
                           calibration_file, calibration_data>>
       \/ \E min_history \in MinSamples, max_history \in MaxSamples :
            /\ bus' = bus_after(3)
            /\ cal' = [cal EXCEPT !.calib_min = last5_average(min_history),
                                  !.calib_max = last5_average(max_history),
                                  !.min_history = min_history,
                                  !.max_history = max_history,
                                  !.pc = "store"]
            /\ UNCHANGED <<normVars, recVars, extVars, frontend, is_connected, calibrations,
                           calibration_file, calibration_data, calib_log>>

\* calibrate_motor_auto up to the validation.  1. write Torque_Enable;
\* 2. read Present_Position; 3. write Goal_Position 0, ten reads, calib_min =
\* the average of the last five; 4. write Goal_Position 4095, ten reads,
\* calib_max likewise; 5. if calib_max <= calib_min: log the error and return
\* False.  Any read or write may raise: the writes issued before it stay
\* issued, the handler logs the error and returns False.
auto_measure ==
    /\ cal.pc = "measure"
    /\ \/ \E issued \in 0 .. 3 :
            /\ bus' = bus_after(issued)
            /\ cal' = next_motor
            /\ calib_log' = [calib_log EXCEPT ![cal_motor] = "error"]
            /\ UNCHANGED <<normVars, recVars, extVars, frontend, is_connected, calibrations,
                           calibration_file, calibration_data>>
       \/ \E min_history \in MinSamples, max_history \in MaxSamples :
            LET calib_min == last5_average(min_history)
                calib_max == last5_average(max_history)
            IN  /\ bus' = bus_after(3)
                /\ IF calib_max <= calib_min
                   THEN /\ cal' = next_motor
                        /\ calib_log' = [calib_log EXCEPT ![cal_motor] = "max_le_min"]
                   ELSE /\ cal' = [cal EXCEPT !.calib_min = calib_min,
                                              !.calib_max = calib_max,
                                              !.min_history = min_history,
                                              !.max_history = max_history,
                                              !.pc = "store"]
                        /\ UNCHANGED calib_log
                /\ UNCHANGED <<normVars, recVars, extVars, frontend, is_connected, calibrations,
                               calibration_file, calibration_data>>

\* 6. create_motor_calibration (raises when no signature fits), then
\* save_motor_calibration: self.calibrations[motor_name] = {motor_id,
\* min_position, max_position}
auto_store ==
    /\ cal.pc = "store"
    /\ \/ /\ calibrations' = dict_set(calibrations, cal_motor,
                                      min_max(motor_id_of(cal_motor),
                                              cal.calib_min, cal.calib_max))
          /\ cal' = [cal EXCEPT !.pc = "persist"]
          /\ UNCHANGED <<normVars, recVars, extVars, frontend, is_connected,
                         calibration_file, calibration_data, bus, calib_log>>
       \/ auto_fails

\* save_motor_calibration goes on: save_calibration_to_file()
auto_persist ==
    /\ cal.pc = "persist"
    /\ calibration_file' = save_calibration_to_file(calibrations)
    /\ cal' = [cal EXCEPT !.pc = "center"]
    /\ UNCHANGED <<normVars, recVars, extVars, frontend, is_connected, calibrations,
                   calibration_data, bus, calib_log>>

\* 7. write Goal_Position (calib_min + calib_max) // 2; return True
auto_center ==
    /\ cal.pc = "center"
    /\ \/ /\ bus' = bus_write("Goal_Position", (cal.calib_min + cal.calib_max) \div 2)
          /\ cal' = next_motor
          /\ calib_log' = [calib_log EXCEPT ![cal_motor] = "ok"]
          /\ UNCHANGED <<normVars, recVars, extVars, frontend, is_connected, calibrations,
                         calibration_file, calibration_data>>
       \/ auto_fails

\* web_app.py, calibration_thread after its loop: save_calibration_to_file()
auto_final_save ==
    /\ cal.pc = "final_save"
    /\ calibration_file' = save_calibration_to_file(calibrations)
    /\ cal' = [cal EXCEPT !.pc = "idle"]
    /\ UNCHANGED <<normVars, recVars, extVars, frontend, is_connected, calibrations,
                   calibration_data, bus, calib_log>>

-----------------------------------------------------------------------------
(* The files on disk: calibration.json and the trajectory files, and the    *)
(* four calls that read or write them                                       *)

\* a calibration file that open() or json.load() raises on
Unreadable == [kind |-> "unreadable", data |-> EmptyDict]

\* a trajectory file: missing, readable with its "frames", or one that open()
\* or json.load() raises on
NoRecordingFile == [kind |-> "missing", frames |-> <<>>]
UnreadableRecording == [kind |-> "unreadable", frames |-> <<>>]
recording_json(frames) == [kind |-> "json", frames |-> frames]

\* no call has gone to a file yet.  `failed` is history: the call met a file
\* it could not read or write; `result` is what the caller got: the return
\* value, or "raised" when an exception left the call; `logged` is the message
\* the call passed to self.log, "" if none
NoIo == [op |-> "none", failed |-> FALSE, result |-> "none", logged |-> ""]

io_done(op, failed, result, logged) ==
    [op |-> op, failed |-> failed, result |-> result, logged |-> logged]

\* the other specifications leave the files alone
Files_unused ==
    /\ recording_file = NoRecordingFile
    /\ io = NoIo

\* the stores and frame buffers a call can find in memory
IoStores ==
    { EmptyDict,
      dict_set(EmptyDict, "shoulder_pan", three_point(1, 4000, 100, 50)),
      dict_set(dict_set(EmptyDict, "shoulder_pan", three_point(1, 100, 4000, 2051)),
               "shoulder_lift", three_point(2, 4000, 100, 50)) }

\* the paths a caller passes: none, or the path of the trajectory file
Filepaths == {"", "recording.json"}

\* CalibrationManager.save_calibration_to_file: open(..., 'w') and json.dump
\* inside try; except Exception logs.  A failed open leaves the file as it
\* was, a failed dump leaves a truncated one.  The method returns None.
persist ==
    /\ \/ /\ calibration_file' = save_calibration_to_file(calibrations)
          /\ io' = io_done("save_calibration_to_file", FALSE, "None", "saved")
       \/ /\ calibration_file' \in {calibration_file, Unreadable}
          /\ io' = io_done("save_calibration_to_file", TRUE, "None", "save_error")
    /\ UNCHANGED <<normVars, recVars, frontend, is_connected, calibrations,
                   calibration_data, cal, bus, calib_log, recording_file,
                   setupVars, holdVars, sliderVars>>

\* CalibrationManager.load_calibration_from_file on the manager's present
\* store: no file, an exception of open or json.load, an empty mapping, or
\* the loop over the entries; True when at least one entry was taken
load_calibration_from_file ==
    /\ IF calibration_file.kind = "missing"
       THEN /\ io' = io_done("load_calibration_from_file", FALSE, "False", "no_file")
            /\ UNCHANGED calibrations
       ELSE IF calibration_file.kind = "unreadable"
       THEN /\ io' = io_done("load_calibration_from_file", TRUE, "False", "load_error")
            /\ UNCHANGED calibrations
       ELSE IF calibration_file.data = EmptyDict
       THEN /\ io' = io_done("load_calibration_from_file", FALSE, "False", "empty_file")
            /\ UNCHANGED calibrations
       ELSE /\ calibrations' = loaded_store(calibrations, calibration_file.data)
            /\ io' = IF \E n \in DOMAIN calibration_file.data \cap Joints :
                            entry_complete(calibration_file.data[n])
                     THEN io_done("load_calibration_from_file", FALSE, "True", "loaded")
                     ELSE io_done("load_calibration_from_file", FALSE, "False", "none_valid")
    /\ UNCHANGED <<normVars, recVars, frontend, is_connected, calibration_file,
                   calibration_data, cal, bus, calib_log, recording_file,
                   setupVars, holdVars, sliderVars>>

\* RecordingManager.save_recording: False on an empty buffer; otherwise
\* open(filepath, 'w') and json.dump with no try around them (without a
\* filepath the name is generated), then the log and True
save_recording(filepath) ==
    /\ IF recorded_frames = <<>>
       THEN /\ io' = io_done("save_recording", FALSE, "False", "")
            /\ UNCHANGED <<recording_file, log>>
       ELSE \/ /\ recording_file' = recording_json(recorded_frames)
               /\ io' = io_done("save_recording", FALSE, "True", "saved")
               /\ log' = "saved"
            \/ /\ recording_file' \in {recording_file, UnreadableRecording}
               /\ io' = io_done("save_recording", TRUE, "raised", "")
               /\ UNCHANGED log
    /\ UNCHANGED <<normVars, calVars, setupVars, holdVars, sliderVars, is_recording, is_playing,
                   recorded_frames, sample_interval_ms, current_frame, threads, now,
                   written>>

\* RecordingManager.load_recording: False without a filepath or without the
\* file; otherwise open and json.load with no try around them, then
\* self.recorded_frames = data.get('frames', []), the log and True
load_recording_from(filepath) ==
    /\ IF filepath = "" \/ recording_file.kind = "missing"
       THEN /\ io' = io_done("load_recording", FALSE, "False", "")
            /\ UNCHANGED <<recorded_frames, threads, log>>
       ELSE IF recording_file.kind = "unreadable"
       THEN /\ io' = io_done("load_recording", TRUE, "raised", "")
            /\ UNCHANGED <<recorded_frames, threads, log>>
       ELSE /\ recorded_frames' = recording_file.frames
            /\ threads' = rebind_frames(threads, recorded_frames)
            /\ io' = io_done("load_recording", FALSE, "True", "loaded")
            /\ log' = "loaded"
    /\ UNCHANGED <<normVars, calVars, setupVars, holdVars, sliderVars, is_recording, is_playing,
                   sample_interval_ms, current_frame, now, written, recording_file>>

-----------------------------------------------------------------------------
(* web_app.py, setup_motors: the permanent reassignment of servo IDs *)

\* range(1, 254) of the source is 1 .. MaxId here
ServoIds == 1 .. MaxId

\* the IDs a request can carry: the valid ones and 0
RequestIds == 0 .. MaxId

\* motor_id_mappings: lists of <<current_id, new_id>>; the handler is entered
\* once, a state where it has run receives no request
MotorIdMappings ==
    IF setup.pc = "idle"
    THEN UNION { [1 .. n -> RequestIds \X RequestIds] : n \in 0 .. MaxMappings }
    ELSE {}

\* `remaining` is a dict, kept as the list of its <<key, value>> items in
\* insertion order
odict_keys(d) == { d[n][1] : n \in DOMAIN d }
odict_del(d, key) == SelectSeq(d, LAMBDA item : item[1] # key)
odict_set(d, key, value) ==
    IF key \in odict_keys(d)
    THEN [n \in DOMAIN d |-> IF d[n][1] = key THEN <<key, value>> ELSE d[n]]
    ELSE Append(d, <<key, value>>)

\* {int(m['current_id']): int(m['new_id']) for m in motor_id_mappings}
RECURSIVE odict_from(_)
odict_from(motor_id_mappings) ==
    IF motor_id_mappings = <<>>
    THEN <<>>
    ELSE LET n == Len(motor_id_mappings)
         IN  odict_set(odict_from(SubSeq(motor_id_mappings, 1, n - 1)),
                       motor_id_mappings[n][1], motor_id_mappings[n][2])

current_ids_of(motor_id_mappings) ==
    { motor_id_mappings[n][1] : n \in DOMAIN motor_id_mappings }
new_ids_of(motor_id_mappings) ==
    { motor_id_mappings[n][2] : n \in DOMAIN motor_id_mappings }

\* next((i for i in range(1, 254) if i not in all_ids), None)
first_free_id(all_ids) ==
    IF ServoIds \subseteq all_ids
    THEN None
    ELSE CHOOSE i \in ServoIds \ all_ids : \A j \in ServoIds \ all_ids : i <= j

\* the handler when no request runs.  `applied` is history: the changes
\* _sts_change_id has reported as done, in order; `lost` is history: a write
\* of the ID register did not reach its servo.  The local used_ids is written
\* and never read; it has no field
NoSetup ==
    [pc |-> "idle", motor_id_mappings |-> <<>>, remaining |-> <<>>, temp_id |-> None,
     items |-> <<>>, progress |-> FALSE, result |-> "none", applied |-> <<>>,
     lost |-> FALSE]

\* the other specifications have no servo line
setup_unused ==
    /\ servo_id = EmptyDict
    /\ setup = NoSetup

\* the ID register of every servo that answers to old_id is written
ids_after_write(ids, old_id, new_id) ==
    [s \in DOMAIN ids |-> IF ids[s] = old_id THEN new_id ELSE ids[s]]

\* _sts_ping: some servo answers to servo_id
sts_ping(ids, id) == \E s \in DOMAIN ids : ids[s] = id

\* setup_motors without the test len(set(new_ids)) != len(new_ids)
setup_motors_no_duplicate_test(motor_id_mappings) ==
    /\ setup.pc = "idle"
    /\ setup' =
          IF motor_id_mappings = <<>>
          THEN [setup EXCEPT !.pc = "done", !.result = "no_change_requested",
                             !.motor_id_mappings = motor_id_mappings]
          ELSE IF \E n \in DOMAIN motor_id_mappings :
                     \/ motor_id_mappings[n][1] < 1 \/ motor_id_mappings[n][1] > MaxId
                     \/ motor_id_mappings[n][2] < 1 \/ motor_id_mappings[n][2] > MaxId
          THEN [setup EXCEPT !.pc = "done", !.result = "invalid_ids",
                             !.motor_id_mappings = motor_id_mappings]
          ELSE [setup EXCEPT !.pc = "while",
                             !.motor_id_mappings = motor_id_mappings,
                             !.remaining = odict_from(motor_id_mappings),
                             !.temp_id = first_free_id(current_ids_of(motor_id_mappings)
                                                       \cup new_ids_of(motor_id_mappings))]
    /\ UNCHANGED <<normVars, recVars, calVars, ioVars, holdVars, sliderVars, servo_id>>

\* setup_motors up to the loop: the requests that are refused outright, then
\* remaining, all_ids and temp_id
setup_motors(motor_id_mappings) ==
    /\ setup.pc = "idle"
    /\ setup' =
          IF motor_id_mappings = <<>>
          THEN [setup EXCEPT !.pc = "done", !.result = "no_change_requested",
                             !.motor_id_mappings = motor_id_mappings]
          ELSE IF \E n \in DOMAIN motor_id_mappings :
                     \/ motor_id_mappings[n][1] < 1 \/ motor_id_mappings[n][1] > MaxId
                     \/ motor_id_mappings[n][2] < 1 \/ motor_id_mappings[n][2] > MaxId
          THEN [setup EXCEPT !.pc = "done", !.result = "invalid_ids",
                             !.motor_id_mappings = motor_id_mappings]
          ELSE IF Cardinality(new_ids_of(motor_id_mappings)) # Len(motor_id_mappings)
          THEN [setup EXCEPT !.pc = "done", !.result = "duplicate_new_ids",
                             !.motor_id_mappings = motor_id_mappings]
          ELSE [setup EXCEPT !.pc = "while",
                             !.motor_id_mappings = motor_id_mappings,
                             !.remaining = odict_from(motor_id_mappings),
                             !.temp_id = first_free_id(current_ids_of(motor_id_mappings)
                                                       \cup new_ids_of(motor_id_mappings))]
    /\ UNCHANGED <<normVars, recVars, calVars, ioVars, holdVars, sliderVars, servo_id>>

\* while remaining: progress = False; for ... in list(remaining.items())
setup_while ==
    /\ setup.pc = "while"
    /\ setup' = IF setup.remaining = <<>>
                THEN [setup EXCEPT !.pc = "done", !.result = "success"]
                ELSE [setup EXCEPT !.pc = "for", !.progress = FALSE,
                                   !.items = setup.remaining]
    /\ UNCHANGED <<normVars, recVars, calVars, ioVars, holdVars, sliderVars, servo_id>>

\* apply_change(old_id, new_id) with the bookkeeping `then` that follows it.
\* _sts_change_id returns True at once when the IDs are equal; otherwise it
\* writes the ID register and pings new_id.  The write can be lost on the
\* line; without an answer to the ping RuntimeError leaves the loop and the
\* handler answers 400.
apply_change(old_id, new_id, then) ==
    IF old_id = new_id
    THEN /\ setup' = [then EXCEPT !.applied = Append(@, <<old_id, new_id>>)]
         /\ UNCHANGED servo_id
    ELSE \E landed \in BOOLEAN :
            /\ servo_id' = IF landed THEN ids_after_write(servo_id, old_id, new_id)
                           ELSE servo_id
            /\ setup' =
                  IF sts_ping(servo_id', new_id)
                  THEN [then EXCEPT !.applied = Append(@, <<old_id, new_id>>),
                                    !.lost = @ \/ ~landed]
                  ELSE [setup EXCEPT !.pc = "done", !.result = "error",
                                     !.lost = @ \/ ~landed]

\* one turn of the for loop without the test `new_id not in remaining`
setup_for_untested ==
    /\ setup.pc = "for"
    /\ setup.items # <<>>
    /\ LET old_id == Head(setup.items)[1]
           new_id == Head(setup.items)[2]
       IN  apply_change(old_id, new_id,
                        [setup EXCEPT !.items = Tail(@),
                                      !.remaining = odict_del(@, old_id),
                                      !.progress = TRUE])
    /\ UNCHANGED <<normVars, recVars, calVars, ioVars, holdVars, sliderVars>>

\* one turn of the for loop: if new_id not in remaining: apply_change, del
\* remaining[old_id], progress = True
setup_for ==
    /\ setup.pc = "for"
    /\ setup.items # <<>>
    /\ LET old_id == Head(setup.items)[1]
           new_id == Head(setup.items)[2]
       IN  IF new_id \notin odict_keys(setup.remaining)
           THEN apply_change(old_id, new_id,
                             [setup EXCEPT !.items = Tail(@),
                                           !.remaining = odict_del(@, old_id),
                                           !.progress = TRUE])
           ELSE /\ setup' = [setup EXCEPT !.items = Tail(@)]
                /\ UNCHANGED servo_id
    /\ UNCHANGED <<normVars, recVars, calVars, ioVars, holdVars, sliderVars>>

\* after the for loop, had the handler no temporary ID to break a cycle with
setup_after_for_no_temp ==
    /\ setup.pc = "for"
    /\ setup.items = <<>>
    /\ setup' = IF setup.progress
                THEN [setup EXCEPT !.pc = "while"]
                ELSE [setup EXCEPT !.pc = "done", !.result = "conflict"]
    /\ UNCHANGED <<normVars, recVars, calVars, ioVars, holdVars, sliderVars, servo_id>>

\* after the for loop: continue if progress; the 400 answer without a
\* temp_id; otherwise the first item of remaining goes to temp_id
setup_after_for ==
    /\ setup.pc = "for"
    /\ setup.items = <<>>
    /\ IF setup.progress
       THEN /\ setup' = [setup EXCEPT !.pc = "while"]
            /\ UNCHANGED servo_id
       ELSE IF setup.temp_id = None
       THEN /\ setup' = [setup EXCEPT !.pc = "done", !.result = "conflict"]
            /\ UNCHANGED servo_id
       ELSE LET old_id == setup.remaining[1][1]
                new_id == setup.remaining[1][2]
            IN  apply_change(old_id, setup.temp_id,
                             [setup EXCEPT
                                 !.pc = "while",
                                 !.remaining = odict_set(odict_del(@, old_id),
                                                         setup.temp_id, new_id)])
    /\ UNCHANGED <<normVars, recVars, calVars, ioVars, holdVars, sliderVars>>

-----------------------------------------------------------------------------
(* motor_control.py: hold_current_positions_and_lock and what it calls *)

\* where a motor can stand
PresentPositions == {1000, 3000}

\* the motor_names a caller passes
HoldNames == { <<"shoulder_pan", "shoulder_lift">>, <<"shoulder_lift">> }

names_of(names) == { names[n] : n \in DOMAIN names }

\* the call when it has not been made.  `positions` is the local dict;
\* `result` is the return value
NoHold ==
    [pc |-> "idle", names |-> <<>>, positions |-> EmptyDict, result |-> "none"]

\* the other specifications make no such call
hold_unused ==
    /\ present = [n \in Joints |-> 1000]
    /\ hold = NoHold

\* one write per motor of names, in the order of names
writes_for(register, names, values) ==
    [n \in DOMAIN names |-> [register |-> register, motor |-> names[n],
                             value |-> values[names[n]]]]

\* hold_current_positions_and_lock is entered: names = list(motor_names)
hold_current_positions_and_lock(motor_names) ==
    /\ hold.pc = "idle"
    /\ hold' = [hold EXCEPT !.pc = "read", !.names = motor_names]
    /\ UNCHANGED <<normVars, recVars, calVars, ioVars, setupVars, sliderVars, present>>

\* positions = {name: int(positions_override[name]) ...}: no caller passes
\* positions_override; where one would, it is the reading it has just taken
hold_override ==
    /\ hold.pc = "read"
    /\ hold' = [hold EXCEPT !.pc = "write",
                            !.positions = [n \in names_of(hold.names) |-> present[n]]]
    /\ UNCHANGED <<normVars, recVars, calVars, ioVars, setupVars, sliderVars, present>>

\* read_positions: sync_read answers for the motors in `answered` and the
\* dict is {name: int(positions.get(name, 0))}
read_positions_sync ==
    /\ hold.pc = "read"
    /\ \E answered \in SUBSET names_of(hold.names) :
          hold' = [hold EXCEPT !.pc = "write",
                               !.positions = [n \in names_of(hold.names) |->
                                                 IF n \in answered THEN present[n] ELSE 0]]
    /\ UNCHANGED <<normVars, recVars, calVars, ioVars, setupVars, sliderVars, present>>

\* read_positions: sync_read raises; the motors are read one by one and a
\* read that raises gives positions[name] = 0
read_positions_fallback ==
    /\ hold.pc = "read"
    /\ \E raising \in SUBSET names_of(hold.names) :
          hold' = [hold EXCEPT !.pc = "write",
                               !.positions = [n \in names_of(hold.names) |->
                                                 IF n \in raising THEN 0 ELSE present[n]]]
    /\ UNCHANGED <<normVars, recVars, calVars, ioVars, setupVars, sliderVars, present>>

\* write_positions: sync_write("Goal_Position", positions)
write_positions_sync ==
    /\ hold.pc = "write"
    /\ bus' = bus \o writes_for("Goal_Position", hold.names, hold.positions)
    /\ hold' = [hold EXCEPT !.pc = "torque"]
    /\ UNCHANGED <<normVars, recVars, ioVars, setupVars, sliderVars, present, frontend, is_connected,
                   calibrations, calibration_file, calibration_data, cal, calib_log>>

\* write_positions: sync_write raises; the motors are written one by one.
\* A write that raises there leaves the call through its except: the error
\* is logged and the call returns False with the first `done` motors written
write_positions_fallback ==
    /\ hold.pc = "write"
    /\ \E done \in 0 .. Len(hold.names) :
          /\ bus' = bus \o SubSeq(writes_for("Goal_Position", hold.names, hold.positions),
                                  1, done)
          /\ hold' = IF done = Len(hold.names)
                     THEN [hold EXCEPT !.pc = "torque"]
                     ELSE [hold EXCEPT !.pc = "done", !.result = "False"]
    /\ UNCHANGED <<normVars, recVars, ioVars, setupVars, sliderVars, present, frontend, is_connected,
                   calibrations, calibration_file, calibration_data, cal, calib_log>>

\* set_torque(names, enable=True): sync_write("Torque_Enable"), or after it
\* raised the motors one by one; then return True.  A single write that raises
\* ends the call with False
set_torque ==
    /\ hold.pc = "torque"
    /\ \E done \in 0 .. Len(hold.names) :
          /\ bus' = bus \o SubSeq(writes_for("Torque_Enable", hold.names,
                                             [n \in names_of(hold.names) |-> 1]),
                                  1, done)
          /\ hold' = IF done = Len(hold.names)
                     THEN [hold EXCEPT !.pc = "done", !.result = "True"]
                     ELSE [hold EXCEPT !.pc = "done", !.result = "False"]
    /\ UNCHANGED <<normVars, recVars, ioVars, setupVars, sliderVars, present, frontend, is_connected,
                   calibrations, calibration_file, calibration_data, cal, calib_log>>

-----------------------------------------------------------------------------
(* web_app.py: the slider handlers and the position-sender thread *)

\* the slider values a request carries (0 to 100)
SliderValues == {0, 100}

\* int() of a number of hundredths: towards zero
int_of_hundredths(n) == IF n >= 0 THEN n \div 100 ELSE 0 - ((0 - n) \div 100)

\* the stores the slider handlers may find
SliderStores ==
    { EmptyDict, dict_set(EmptyDict, "shoulder_pan", three_point(1, 4000, 100, 50)) }

\* _convert_slider_to_raw_direct with normalized = float(value) / 100.0: the
\* gripper between 2029 and 3204; a joint without calibration, or with
\* pos_left or pos_right None, over 0..4095; else between pos_left and
\* pos_right.  SliderValues are values whose float products are exact
convert_slider_to_raw_direct(motor_name, value) ==
    IF motor_name = "gripper"
    THEN int_of_hundredths(100 * 2029 + value * (3204 - 2029))
    ELSE IF motor_name \notin DOMAIN calibrations
    THEN int_of_hundredths(value * 4095)
    ELSE LET calib == calibrations[motor_name]
         IN  IF calib.pos_left = None \/ calib.pos_right = None
             THEN int_of_hundredths(value * 4095)
             ELSE int_of_hundredths(100 * calib.pos_left
                                    + value * (calib.pos_right - calib.pos_left))

\* a send_positions thread that has returned
NoSender ==
    [pc |-> "done", positions_to_send |-> EmptyDict, todo |-> <<>>,
     overload_cooldown |-> {}]

\* commands is history.  Every update_slider numbers its command: issued is
\* the count so far and an entry of pending_positions carries the number as
\* seq next to raw.  written: Goal_Position was written with the command.
\* replaced: a later update_slider overwrote it in pending_positions.
\* reported: its write raised and the error was logged.  skipped: its motor
\* was in overload cooldown.  excused: issued before a call of enable_sliders.
\* enables counts the calls of enable_sliders
NoCommands ==
    [issued |-> 0, written |-> {}, replaced |-> {}, reported |-> {}, skipped |-> {},
     excused |-> {}, enables |-> 0]

\* app_state as the module sets it up
sliders_init ==
    /\ pending_positions = EmptyDict
    /\ position_sender_running = FALSE
    /\ torque_enabled_for_sliders = {}
    /\ senders = <<>>
    /\ commands = NoCommands

\* the keys of a dict for a for loop, here in the order of MOTOR_NAMES
RECURSIVE keys_in_order(_, _)
keys_in_order(d, names) ==
    IF names = <<>> THEN <<>>
    ELSE IF Head(names) \in DOMAIN d
    THEN <<Head(names)>> \o keys_in_order(d, Tail(names))
    ELSE keys_in_order(d, Tail(names))

\* POST /api/slider/update: pending_positions[motor_name] = raw_pos, then
\* _start_position_sender(): nothing if position_sender_running, else the flag
\* is set and a send_positions thread is started
update_slider(motor_name, value) ==
    /\ is_connected
    /\ commands.issued < MaxCommands
    /\ LET seq == commands.issued + 1
           raw_pos == convert_slider_to_raw_direct(motor_name, value)
       IN  /\ pending_positions' = dict_set(pending_positions, motor_name,
                                            [raw |-> raw_pos, seq |-> seq])
           /\ commands' = [commands EXCEPT
                              !.issued = seq,
                              !.replaced = IF motor_name \in DOMAIN pending_positions
                                           THEN @ \cup {pending_positions[motor_name].seq}
                                           ELSE @]
    /\ IF position_sender_running
       THEN UNCHANGED senders
       ELSE /\ Len(senders) < MaxSenders
            /\ senders' = Append(senders, [NoSender EXCEPT !.pc = "while"])
    /\ position_sender_running' = TRUE
    /\ UNCHANGED <<normVars, recVars, calVars, ioVars, setupVars, holdVars,
                   torque_enabled_for_sliders>>

\* POST /api/slider/enable: with enabled, pending_positions = {}; either
\* way position_sender_running = False and torque_enabled_for_sliders = set()
enable_sliders(enabled) ==
    /\ commands.enables < MaxEnables
    /\ pending_positions' = IF enabled THEN EmptyDict ELSE pending_positions
    /\ position_sender_running' = FALSE
    /\ torque_enabled_for_sliders' = {}
    /\ commands' = [commands EXCEPT !.enables = @ + 1,
                                    !.excused = 1 .. commands.issued]
    /\ UNCHANGED <<normVars, recVars, calVars, ioVars, setupVars, holdVars, senders>>

\* send_positions, the head of its loop: while position_sender_running; if
\* not pending_positions: sleep and continue
send_positions_while(k) ==
    /\ senders[k].pc = "while"
    /\ IF ~position_sender_running
       THEN /\ senders' = [senders EXCEPT ![k].pc = "return"]
            /\ UNCHANGED position_sender_running
       ELSE /\ pending_positions # EmptyDict
            /\ senders' = [senders EXCEPT ![k].pc = "copy"]
            /\ UNCHANGED position_sender_running
    /\ UNCHANGED <<normVars, recVars, calVars, ioVars, setupVars, holdVars,
                   pending_positions, torque_enabled_for_sliders, commands>>

\* positions_to_send = app_state['pending_positions'].copy()
send_positions_copy(k) ==
    /\ senders[k].pc = "copy"
    /\ senders' = [senders EXCEPT ![k].pc = "clear",
                                  ![k].positions_to_send = pending_positions]
    /\ UNCHANGED <<normVars, recVars, calVars, ioVars, setupVars, holdVars,
                   pending_positions, position_sender_running,
                   torque_enabled_for_sliders, commands>>

\* app_state['pending_positions'].clear(), then the for loop is entered
send_positions_clear(k) ==
    /\ senders[k].pc = "clear"
    /\ pending_positions' = EmptyDict
    /\ senders' = [senders EXCEPT
                      ![k].pc = IF senders[k].positions_to_send = EmptyDict
                                THEN "while" ELSE "send",
                      ![k].todo = keys_in_order(senders[k].positions_to_send, MOTOR_NAMES)]
    /\ UNCHANGED <<normVars, recVars, calVars, ioVars, setupVars, holdVars,
                   position_sender_running, torque_enabled_for_sliders, commands>>

\* the thread after one turn of its for loop
sender_after_turn(th, cooldown) ==
    [th EXCEPT !.todo = Tail(@),
               !.overload_cooldown = cooldown,
               !.pc = IF Len(th.todo) > 1 THEN "send" ELSE "while"]

\* one turn of the for loop.  A motor in overload_cooldown is passed over
\* until its two seconds are over.  Otherwise Torque_Enable is written if the
\* motor is not in torque_enabled_for_sliders, then Goal_Position; an
\* exception of either write is logged, and "Overload" puts the motor in
\* overload_cooldown
send_positions_turn(k) ==
    /\ senders[k].pc = "send"
    /\ LET th == senders[k]
           motor_name == Head(th.todo)
           seq == th.positions_to_send[motor_name].seq
       IN  \/ /\ motor_name \in th.overload_cooldown
              /\ senders' = [senders EXCEPT ![k] = sender_after_turn(th, th.overload_cooldown)]
              /\ commands' = [commands EXCEPT !.skipped = @ \cup {seq}]
              /\ UNCHANGED torque_enabled_for_sliders
           \/ /\ senders' = [senders EXCEPT
                                ![k] = sender_after_turn(th, th.overload_cooldown \ {motor_name})]
              /\ torque_enabled_for_sliders' = torque_enabled_for_sliders \cup {motor_name}
              /\ commands' = [commands EXCEPT !.written = @ \cup {seq}]
           \/ \E overload \in BOOLEAN, torque_written \in BOOLEAN :
                 /\ torque_written => motor_name \notin torque_enabled_for_sliders
                 /\ senders' = [senders EXCEPT
                                   ![k] = sender_after_turn(th,
                                             IF overload
                                             THEN th.overload_cooldown \cup {motor_name}
                                             ELSE th.overload_cooldown \ {motor_name})]
                 /\ torque_enabled_for_sliders' =
                       IF torque_written
                       THEN torque_enabled_for_sliders \cup {motor_name}
                       ELSE torque_enabled_for_sliders
                 /\ commands' = [commands EXCEPT !.reported = @ \cup {seq}]
    /\ UNCHANGED <<normVars, recVars, calVars, ioVars, setupVars, holdVars,
                   pending_positions, position_sender_running>>

\* the thread returns: app_state['position_sender_running'] = False
send_positions_return(k) ==
    /\ senders[k].pc = "return"
    /\ position_sender_running' = FALSE
    /\ senders' = [senders EXCEPT ![k] = NoSender]
    /\ UNCHANGED <<normVars, recVars, calVars, ioVars, setupVars, holdVars,
                   pending_positions, torque_enabled_for_sliders, commands>>

-----------------------------------------------------------------------------
(* One call of a pure function on a calibration drawn at Init *)

InitNorm ==
    /\ pos_left \in Positions
    /\ pos_right \in Positions
    /\ pos_center \in Positions
    /\ call = "none"
    /\ arg = <<>>
    /\ distance = <<>>
    /\ ret = <<>>
    /\ RecordingManager_init
    /\ CalibrationManager_unused
    /\ Files_unused
    /\ setup_unused
    /\ hold_unused
    /\ sliders_init

CallGetPathInfo ==
    /\ call = "none"
    /\ call' = "get_path_info"
    /\ arg' = <<>>
    /\ distance' = <<>>
    /\ ret' = get_path_info(pos_left, pos_right, pos_center)
    /\ UNCHANGED <<pos_left, pos_right, pos_center, recVars, calVars, extVars>>

CallNormalize ==
    \E raw_pos \in Positions :
        LET info == get_path_info(pos_left, pos_right, pos_center)
        IN  /\ call = "none"
            /\ call' = "normalize_position"
            /\ arg' = raw_pos
            /\ distance' = IF info[1] = 0
                           THEN <<0>>
                           ELSE <<normalize_distance(raw_pos, pos_left, info[2], info[3])>>
            /\ ret' = normalize_position(raw_pos, pos_left, pos_right, pos_center)
            /\ UNCHANGED <<pos_left, pos_right, pos_center, recVars, calVars, extVars>>

CallDenormalize ==
    \E normalized \in Values :
        LET info == get_path_info(pos_left, pos_right, pos_center)
        IN  /\ call = "none"
            /\ call' = "denormalize_position"
            /\ arg' = normalized
            /\ distance' = IF info[1] = 0
                           THEN <<>>
                           ELSE <<denormalize_distance(clamp01(normalized), info[1])>>
            /\ ret' = denormalize_position(normalized, pos_left, pos_right, pos_center)
            /\ UNCHANGED <<pos_left, pos_right, pos_center, recVars, calVars, extVars>>

NextNorm ==
    \/ CallGetPathInfo
    \/ CallNormalize
    \/ CallDenormalize

SpecNorm == InitNorm /\ [][NextNorm]_vars

-----------------------------------------------------------------------------
(* The RecordingManager: one foreground caller and the threads it starts *)

InitRec ==
    /\ pos_left = 0 /\ pos_right = 0 /\ pos_center = 0
    /\ call = "none" /\ arg = <<>> /\ distance = <<>> /\ ret = <<>>
    /\ RecordingManager_init
    /\ CalibrationManager_unused
    /\ Files_unused
    /\ setup_unused
    /\ hold_unused
    /\ sliders_init

NextRec ==
    \/ \E interval \in 1 .. MaxInterval : start_recording(interval)
    \/ stop_recording
    \/ \E file \in RecordingFiles : load_recording(file)
    \/ play_recording
    \/ stop_playback
    \/ \E k \in DOMAIN threads : record_thread_start(k)
    \/ \E k \in DOMAIN threads : record_thread_check(k)
    \/ \E k \in DOMAIN threads : record_thread_read(k)
    \/ \E k \in DOMAIN threads : record_thread_read_fails(k)
    \/ \E k \in DOMAIN threads : record_thread_append(k)
    \/ \E k \in DOMAIN threads : play_thread_start(k)
    \/ \E k \in DOMAIN threads : play_thread_iter(k)
    \/ \E k \in DOMAIN threads : play_thread_set_current(k)
    \/ \E k \in DOMAIN threads : play_thread_write(k)
    \/ \E k \in DOMAIN threads : play_thread_write_fails(k)
    \/ \E k \in DOMAIN threads : play_thread_end(k)
    \/ Tick

SpecRec == InitRec /\ [][NextRec]_vars

-----------------------------------------------------------------------------
(* The CalibrationManager: one front end, its handlers and the              *)
(* auto-calibration thread                                                  *)

InitCal ==
    /\ pos_left = 0 /\ pos_right = 0 /\ pos_center = 0
    /\ call = "none" /\ arg = <<>> /\ distance = <<>> /\ ret = <<>>
    /\ RecordingManager_init
    /\ CalibrationManager_init
    /\ Files_unused
    /\ setup_unused
    /\ hold_unused
    /\ sliders_init

NextCal ==
    \/ connect
    \/ \E motor_name \in ManualJoints, position_type \in Slots :
          calibrate_manual(motor_name, position_type)
    \/ \E motor_name \in ManualJoints, position_type \in Slots :
          record_position(motor_name, position_type)
    \/ \E motor_name \in ManualJoints : reset_motor_calibration(motor_name)
    \/ setup_manual_calibration
    \/ \E motors \in AutoBatches : calibrate_auto(motors)
    \/ \E motors \in AutoBatches : start_calibration(motors)
    \/ auto_measure
    \/ auto_store
    \/ auto_persist
    \/ auto_center
    \/ auto_final_save

SpecCal == InitCal /\ [][NextCal]_vars

-----------------------------------------------------------------------------
(* The calls that go to a file, on a store, a frame buffer and files drawn   *)
(* at Init                                                                   *)

InitIo ==
    /\ pos_left = 0 /\ pos_right = 0 /\ pos_center = 0
    /\ call = "none" /\ arg = <<>> /\ distance = <<>> /\ ret = <<>>
    /\ is_recording = FALSE /\ is_playing = FALSE
    /\ recorded_frames \in RecordingFiles
    /\ sample_interval_ms = 1 /\ current_frame = 0 /\ threads = <<>>
    /\ now = 0 /\ written = <<>> /\ log = ""
    /\ frontend = "gui" /\ is_connected = TRUE
    /\ calibrations \in IoStores
    /\ calibration_file \in CalibrationFiles \cup {Unreadable}
    /\ calibration_data = EmptyDict /\ cal = NoCal /\ bus = <<>>
    /\ calib_log = [n \in Joints |-> "none"]
    /\ recording_file \in {NoRecordingFile, UnreadableRecording}
                          \cup { recording_json(frames) : frames \in RecordingFiles }
    /\ io = NoIo
    /\ setup_unused
    /\ hold_unused
    /\ sliders_init

NextIo ==
    \/ persist
    \/ load_calibration_from_file
    \/ \E filepath \in Filepaths : save_recording(filepath)
    \/ \E filepath \in Filepaths : load_recording_from(filepath)

SpecIo == InitIo /\ [][NextIo]_vars

-----------------------------------------------------------------------------
(* One request to setup_motors on a serial line with the servos drawn at     *)
(* Init                                                                      *)

InitSetup ==
    /\ pos_left = 0 /\ pos_right = 0 /\ pos_center = 0
    /\ call = "none" /\ arg = <<>> /\ distance = <<>> /\ ret = <<>>
    /\ RecordingManager_init
    /\ CalibrationManager_unused
    /\ Files_unused
    /\ hold_unused
    /\ sliders_init
    /\ \E detected \in SUBSET ServoIds : servo_id = [s \in detected |-> s]
    /\ setup = NoSetup

NextSetup ==
    \/ \E motor_id_mappings \in MotorIdMappings : setup_motors(motor_id_mappings)
    \/ setup_while
    \/ setup_for
    \/ setup_after_for

SpecSetup == InitSetup /\ [][NextSetup]_vars

\* the handler is sequential code: a request that has started runs on
SpecSetupFair == SpecSetup /\ WF_vars(setup_while \/ setup_for \/ setup_after_for)

-----------------------------------------------------------------------------
(* One call of hold_current_positions_and_lock on motors standing where     *)
(* Init puts them                                                           *)

InitHold ==
    /\ pos_left = 0 /\ pos_right = 0 /\ pos_center = 0
    /\ call = "none" /\ arg = <<>> /\ distance = <<>> /\ ret = <<>>
    /\ RecordingManager_init
    /\ CalibrationManager_unused
    /\ Files_unused
    /\ setup_unused
    /\ present \in [Joints -> PresentPositions]
    /\ hold = NoHold
    /\ sliders_init

NextHold ==
    \/ \E motor_names \in HoldNames : hold_current_positions_and_lock(motor_names)
    \/ hold_override
    \/ read_positions_sync
    \/ read_positions_fallback
    \/ write_positions_sync
    \/ write_positions_fallback
    \/ set_torque

SpecHold == InitHold /\ [][NextHold]_vars

-----------------------------------------------------------------------------
(* The sliders of the web front end: the request handlers and the            *)
(* send_positions threads they start                                         *)

InitSlider ==
    /\ pos_left = 0 /\ pos_right = 0 /\ pos_center = 0
    /\ call = "none" /\ arg = <<>> /\ distance = <<>> /\ ret = <<>>
    /\ RecordingManager_init
    /\ frontend = "web" /\ is_connected = TRUE
    /\ calibrations \in SliderStores /\ calibration_file = NoFile
    /\ calibration_data = EmptyDict /\ cal = NoCal /\ bus = <<>>
    /\ calib_log = [n \in Joints |-> "none"]
    /\ Files_unused
    /\ setup_unused
    /\ hold_unused
    /\ sliders_init

NextSlider ==
    \/ \E motor_name \in Joints, value \in SliderValues : update_slider(motor_name, value)
    \/ \E enabled \in BOOLEAN : enable_sliders(enabled)
    \/ \E k \in DOMAIN senders : send_positions_while(k)
    \/ \E k \in DOMAIN senders : send_positions_copy(k)
    \/ \E k \in DOMAIN senders : send_positions_clear(k)
    \/ \E k \in DOMAIN senders : send_positions_turn(k)
    \/ \E k \in DOMAIN senders : send_positions_return(k)

SpecSlider == InitSlider /\ [][NextSlider]_vars

-----------------------------------------------------------------------------
(* Properties of the cyclic position math, checked under SpecNorm *)

MinPos == IF pos_left <= pos_right THEN pos_left ELSE pos_right
MaxPos == IF pos_left <= pos_right THEN pos_right ELSE pos_left
CenterInDirectInterval == MinPos <= pos_center /\ pos_center <= MaxPos
PathInfo == get_path_info(pos_left, pos_right, pos_center)

\* C1: get_path_info reports wraps = true exactly when center does not lie in
\* the direct interval [min(left,right), max(left,right)].
C1_WrapsIffCenterOutside ==
    call = "get_path_info" => (ret[3] <=> ~CenterInDirectInterval)

\* C1 witness: (100, 4000, 50) wraps, while the same (left, right) with
\* center 2000 does not: opposite classifications for one (left, right).
C1_Witness ==
    /\ call = "get_path_info"
    /\ pos_left = 100 /\ pos_right = 4000 /\ pos_center = 50
    /\ ret[3] = TRUE
    /\ detect_wrap_around(pos_left, pos_right, 2000) = FALSE

\* C2: with center inside the direct interval, get_path_info returns
\* (right-left, +1, false) if left <= right and (left-right, -1, false) otherwise.
C2_DirectPath ==
    (call = "get_path_info" /\ CenterInDirectInterval) =>
        ret = IF pos_left <= pos_right
              THEN <<pos_right - pos_left, 1, FALSE>>
              ELSE <<pos_left - pos_right, -1, FALSE>>

C2_Witness ==
    /\ call = "get_path_info"
    /\ pos_left = 3000 /\ pos_right = 1000 /\ pos_center = 2000
    /\ ret = <<2000, -1, FALSE>>

\* C3: with center outside the direct interval, get_path_info returns
\* (left + (4096 - right), -1, true) if left <= right and
\* ((4096 - left) + right, +1, true) if left > right; (100, 4000, 50) gives
\* (196, -1, true) and (4000, 100, 4050) gives (196, +1, true).
C3_WrapPath ==
    /\ (call = "get_path_info" /\ ~CenterInDirectInterval) =>
            ret = IF pos_left <= pos_right
                  THEN <<pos_left + (4096 - pos_right), -1, TRUE>>
                  ELSE <<(4096 - pos_left) + pos_right, 1, TRUE>>
    /\ (call = "get_path_info" /\ <<pos_left, pos_right, pos_center>> = <<100, 4000, 50>>)
            => ret = <<196, -1, TRUE>>
    /\ (call = "get_path_info" /\ <<pos_left, pos_right, pos_center>> = <<4000, 100, 4050>>)
            => ret = <<196, 1, TRUE>>

C3_Witness ==
    /\ call = "get_path_info"
    /\ <<pos_left, pos_right, pos_center>> = <<4000, 100, 4050>>
    /\ ret = <<196, 1, TRUE>>

\* the float x is exactly 0.0 / exactly 1.0
IsZero(x) == x[2] > 0 /\ x[1] = 0
IsOne(x) == x[2] > 0 /\ x[1] = x[2]

\* C4 as stated: for any calibration in [0,4096) that normalize_position
\* accepts (total_range # 0), normalize_position(left) is exactly 0.0 and
\* normalize_position(right) is exactly 1.0.
C4_Original ==
    (call = "normalize_position" /\ PathInfo[1] # 0) =>
        /\ arg = pos_left => IsZero(ret)
        /\ arg = pos_right => IsOne(ret)

\* C4 amended: for any calibration with left # right, normalize_position(left)
\* is exactly 0.0 and normalize_position(right) is exactly 1.0.
C4_Endpoints ==
    (call = "normalize_position" /\ pos_left # pos_right) =>
        /\ arg = pos_left => IsZero(ret)
        /\ arg = pos_right => IsOne(ret)

\* C4 witness: the right end of an arc through 0 normalizes to exactly 1.0.
C4_Witness ==
    /\ call = "normalize_position"
    /\ <<pos_left, pos_right, pos_center>> = <<100, 4000, 50>>
    /\ arg = pos_right
    /\ IsOne(ret)

InUnitInterval(v) == 0 <= v[1] /\ v[1] <= v[2]

RoundTripError ==
    RatAbsDiff(normalize_position(ret, pos_left, pos_right, pos_center), arg)

\* C5 as stated: for every v in [0,1] and every calibration with
\* total_range # 0, normalize(denormalize(v)) differs from v by at most
\* 1/total_range.
C5_Original ==
    (call = "denormalize_position" /\ InUnitInterval(arg) /\ PathInfo[1] # 0) =>
        RatLeq(RoundTripError, <<1, PathInfo[1]>>)

\* C5 amended: for every v in [0,1] and every calibration with left # right,
\* normalize(denormalize(v)) differs from v by at most 1/total_range.
C5_RoundTrip ==
    (call = "denormalize_position" /\ InUnitInterval(arg) /\ pos_left # pos_right) =>
        RatLeq(RoundTripError, <<1, PathInfo[1]>>)

\* C5 witness: a round trip over an arc through 0 that loses to truncation
\* (v = 2/3 of 196 ticks) and stays within 1/total_range.
C5_Witness ==
    /\ call = "denormalize_position"
    /\ <<pos_left, pos_right, pos_center>> = <<100, 4000, 50>>
    /\ arg = <<2, 3>>
    /\ ~RatEq(normalize_position(ret, pos_left, pos_right, pos_center), arg)
    /\ RatLeq(RoundTripError, <<1, 196>>)

\* raw lies on the calibrated arc from left to right through center
OnCalibratedArc(raw) ==
    IF CenterInDirectInterval
    THEN MinPos <= raw /\ raw <= MaxPos
    ELSE raw <= MinPos \/ raw >= MaxPos

\* C6: for a non-degenerate calibration and every raw position on the
\* calibrated arc, normalize_position returns
\* ((raw - left) * direction mod 4096) / total_range; normalize(0; 100,4000,50)
\* = 100/196, normalize(4050; 4000,100,4050) = 50/196 and
\* normalize(2000; 1000,3000,2000) = 1/2.
C6_NormalizeOnArc ==
    /\ (call = "normalize_position" /\ PathInfo[1] # 0 /\ OnCalibratedArc(arg)) =>
            RatEq(ret, <<((arg - pos_left) * PathInfo[2]) % 4096, PathInfo[1]>>)
    /\ (call = "normalize_position"
            /\ <<arg, pos_left, pos_right, pos_center>> = <<0, 100, 4000, 50>>)
            => RatEq(ret, <<100, 196>>)
    /\ (call = "normalize_position"
            /\ <<arg, pos_left, pos_right, pos_center>> = <<4050, 4000, 100, 4050>>)
            => RatEq(ret, <<50, 196>>)
    /\ (call = "normalize_position"
            /\ <<arg, pos_left, pos_right, pos_center>> = <<2000, 1000, 3000, 2000>>)
            => RatEq(ret, <<1, 2>>)

\* C6 witness: raw 0 has crossed the zero boundary of the arc 100 -> 0 -> 4000.
C6_Witness ==
    /\ call = "normalize_position"
    /\ <<arg, pos_left, pos_right, pos_center>> = <<0, 100, 4000, 50>>
    /\ RatEq(ret, <<100, 196>>)

\* C7: denormalize_position computes the walked distance as
\* round(value * total_range), a nearest integer to the clamped value times
\* total_range: 2 * |distance - v * total_range| <= 1.
C7_DistanceIsRounded ==
    (call = "denormalize_position" /\ distance # <<>>) =>
        LET v == clamp01(arg)
            err == distance[1] * v[2] - v[1] * PathInfo[1]
        IN  2 * (IF err < 0 THEN -err ELSE err) <= v[2]

\* C8: for every input value and every calibration, denormalize_position
\* returns (left + direction * distance) mod 4096, inside [0, 4096).
C8_DenormalizeInRing ==
    call = "denormalize_position" =>
        LET d == IF distance = <<>> THEN 0 ELSE distance[1]
        IN  /\ ret = (pos_left + PathInfo[2] * d) % 4096
            /\ ret \in 0 .. 4095

\* C8 witness: walking 3/4 of the arc 4000 -> 4095 -> 0 -> 100 crosses the
\* ring boundary and lands on raw 51.
C8_Witness ==
    /\ call = "denormalize_position"
    /\ <<pos_left, pos_right, pos_center>> = <<4000, 100, 4050>>
    /\ arg = <<3, 4>>
    /\ distance = <<147>>
    /\ ret = 51

-----------------------------------------------------------------------------
(* Properties of the RecordingManager, checked under SpecRec *)

\* the worker threads whose loop has not returned
AliveThreads == { k \in DOMAIN threads : Alive(k) }

\* C9: at most one background sampling/replay task is alive at any time,
\* whatever the foreground calls.
C9_AtMostOneWorker == Cardinality(AliveThreads) <= 1

\* C10: is_recording and is_playing are never both true.
C10_RecordingXorPlaying == ~(is_recording /\ is_playing)

\* C11: once stop_recording has cleared is_recording, the sampling loop that
\* was running ends at its next iteration boundary (its next test of
\* `while self.is_recording`), whatever the foreground calls in between.
C11_StoppedLoopTerminates ==
    [][\A k \in DOMAIN threads :
          (/\ threads[k].kind = "record"
           /\ threads[k].stopped
           /\ threads[k].pc = "r_check"
           /\ threads'[k].pc # "r_check")
          => threads'[k].pc = "done"]_vars

\* the loop launched by the latest start_recording
SessionLoop ==
    CHOOSE k \in DOMAIN threads \cup {0} :
        /\ k # 0 => threads[k].kind = "record"
        /\ \A j \in DOMAIN threads : threads[j].kind = "record" => j <= k

\* C12: while a session records, every sampled frame in the buffer was
\* sampled by that session's own loop, never by the loop of an earlier session.
C12_FramesOfThisSession ==
    is_recording =>
        \A n \in DOMAIN recorded_frames :
            recorded_frames[n].by # 0 => recorded_frames[n].by = SessionLoop

\* C13: while a session records, the sampled frames in the buffer are strictly
\* time-ordered: frames[n].t < frames[n + 1].t.
C13_StrictlyTimeOrdered ==
    (/\ is_recording
     /\ \A n \in DOMAIN recorded_frames : recorded_frames[n].by # 0)
    => \A n \in 1 .. Len(recorded_frames) - 1 :
           recorded_frames[n].t < recorded_frames[n + 1].t

WritesOf(k) == SelectSeq(written, LAMBDA w : w.by = k)

C16_WriteFailureAborts ==
    [][\A k \in DOMAIN threads :
          /\ (threads[k].pc = "p_write" /\ threads'[k].pc # "p_write")
             => \/ /\ threads'[k].pc = "p_iter"
                   /\ threads'[k].i = threads[k].i + 1
                   /\ Len(WritesOf(k)') = Len(WritesOf(k)) + 1
                \/ /\ threads'[k].pc = "p_end"
                   /\ written' = written
                   /\ log' = "write_error"
          /\ (threads[k].pc = "p_end" /\ threads'[k].pc # "p_end")
             => threads'[k].pc = "done"
          /\ threads[k].pc \in {"p_end", "done"}
             => WritesOf(k)' = WritesOf(k)]_vars

\* C16 witness: the write of the second of two frames has failed; the loop
\* has left its iteration with one frame written and the error logged.
C16_Witness ==
    \E k \in DOMAIN threads :
        /\ threads[k].kind = "play" /\ threads[k].pc = "p_end"
        /\ log = "write_error"
        /\ is_playing
        /\ threads[k].i = 1
        /\ Len(thread_frames(threads[k])) = 2
        /\ Len(WritesOf(k)) = 1

\* the frames a replay loop has still to go through
Remaining(k) == Len(thread_frames(threads[k])) - threads[k].i

\* C17: every playback session eventually ends: the number of frames its
\* loop has still to replay never grows, so the loop runs out of frames (or is
\* aborted or stopped before), and the step that ends the loop leaves
\* is_playing false and current_frame 0.
C17_PlaybackEnds ==
    [][\A k \in DOMAIN threads :
          /\ (/\ threads[k].kind = "play" /\ threads[k].pc # "p_start"
              /\ threads'[k].kind = "play")
             => Remaining(k)' <= Remaining(k)
          /\ (threads[k].pc = "p_end" /\ threads'[k].pc = "done")
             => ~is_playing' /\ current_frame' = 0]_vars

\* C18 as stated: current_frame never exceeds the number of frames whose
\* batch write has been issued.
C18_Original == current_frame <= Len(written)

\* C18, amended: current_frame is set to i+1 just before frame i is waited
\* for and written, so it is 0 or at most one more than the number of frames
\* a running replay loop has written.
C18_CurrentFrameAtMostOneAhead ==
    \/ current_frame = 0
    \/ \E k \in DOMAIN threads :
          /\ threads[k].kind = "play"
          /\ Len(WritesOf(k)) \in {current_frame - 1, current_frame}

\* C18 witness: the only replay loop waits to write its second frame;
\* current_frame is already 2 and one frame has been written.
C18_Witness ==
    /\ Len(threads) = 1
    /\ threads[1].pc = "p_write"
    /\ current_frame = 2
    /\ Len(written) = 1

\* C19 as stated: a stop_playback call issued when the replay loop has
\* played k frames leaves current_frame = k.
C19_Original ==
    [][(/\ is_playing /\ ~is_playing'
        /\ \A k \in DOMAIN threads : threads'[k].pc = threads[k].pc)
       => \E k \in DOMAIN threads :
              /\ threads[k].kind = "play"
              /\ current_frame' = Len(WritesOf(k))]_vars

\* C19, amended: stopping playback resets current_frame to 0, however many
\* frames have been played: every step that clears is_playing sets
\* current_frame to 0.
C19_StopResetsCurrentFrame ==
    [][(is_playing /\ ~is_playing') => current_frame' = 0]_vars

\* C19 witness: playback has been stopped after at least one frame was
\* played, the loop has not yet noticed, and current_frame is 0.
C19_Witness ==
    /\ ~is_playing
    /\ current_frame = 0
    /\ \E k \in DOMAIN threads :
          /\ threads[k].kind = "play" /\ threads[k].stopped
          /\ threads[k].pc = "p_iter"
          /\ Len(WritesOf(k)) >= 1

\* C20: once stop_playback has cleared is_playing, the replay loop that was
\* running exits at its next iteration check, whatever the foreground calls
\* in between.
C20_StoppedLoopExits ==
    [][\A k \in DOMAIN threads :
          (/\ threads[k].kind = "play"
           /\ threads[k].stopped
           /\ threads[k].pc = "p_iter"
           /\ threads'[k].pc # "p_iter")
          => threads'[k].pc = "p_end"]_vars

\* the frame a replay loop is at
FrameAt(k) == thread_frames(threads[k])[threads[k].i + 1]

\* C21: a replay loop takes t0 and the first frame's t when it starts and
\* never changes them; the target of frame i is t0 + (frames[i].t - frames[0].t),
\* whatever time the earlier writes took; frame i is never written before its
\* target, and once the target has passed nothing but the write itself stands
\* between the loop and the bus.
C21_WrittenAtTarget ==
    [][\A k \in DOMAIN threads :
          /\ (threads[k].pc = "p_start" /\ threads'[k].pc # "p_start")
             => /\ threads'[k].t0 = now
                /\ recorded_frames # <<>> => threads'[k].base_t = recorded_frames[1].t
          /\ (threads[k].kind = "play" /\ threads[k].pc # "p_start"
              /\ threads'[k].kind = "play")
             => /\ threads'[k].t0 = threads[k].t0
                /\ threads'[k].base_t = threads[k].base_t
          /\ (threads[k].pc = "p_setcur" /\ threads'[k].pc # "p_setcur")
             => threads'[k].wake = threads[k].t0 + (FrameAt(k).t - threads[k].base_t)
          /\ Len(WritesOf(k)') > Len(WritesOf(k))
             => now >= threads[k].t0 + (FrameAt(k).t - threads[k].base_t)
          /\ (threads[k].pc = "p_write"
              /\ now >= threads[k].t0 + (FrameAt(k).t - threads[k].base_t))
             => ENABLED play_thread_write(k)]_vars

\* C21 witness: a replay loop that started at t0 on frames stamped 0 and 1
\* has written both, the second one when the clock read t0 + 1.
C21_Witness ==
    \E k \in DOMAIN threads :
        /\ threads[k].kind = "play" /\ threads[k].pc = "p_iter"
        /\ threads[k].i = 2
        /\ thread_frames(threads[k])[1].t = 0
        /\ thread_frames(threads[k])[2].t = 1
        /\ now = threads[k].t0 + 1
        /\ Len(WritesOf(k)) = 2

\* C22: the frame sequence a playback session replays is an immutable
\* snapshot: once its loop has taken the list, no step changes it.
C22_FramesAreSnapshot ==
    [][\A k \in DOMAIN threads :
          (/\ threads[k].kind = "play" /\ threads[k].pc # "p_start"
           /\ threads'[k].kind = "play")
          => thread_frames(threads[k])' = thread_frames(threads[k])]_vars

\* C33: play_recording on an empty frame list only reports a warning:
\* the step that logs it leaves is_playing, current_frame, the threads and the
\* bus as they were, and no step taken with an empty list starts a replay
\* loop or sets is_playing.
C33_EmptyPlayIsNoOp ==
    [][/\ (log' = "no_recording" /\ log # "no_recording")
          => /\ recorded_frames = <<>>
             /\ is_playing' = is_playing
             /\ current_frame' = current_frame
             /\ threads' = threads
             /\ written' = written
             /\ recorded_frames' = recorded_frames
       /\ recorded_frames = <<>>
          => /\ ~is_playing => ~is_playing'
             /\ Len(threads') > Len(threads) => threads'[Len(threads')].kind # "play"
             /\ log' = "playing" => log = "playing"]_vars

\* C33 witness: the warning was logged with no playback running and nothing
\* written to the bus.
C33_Witness ==
    /\ log = "no_recording"
    /\ recorded_frames = <<>>
    /\ ~is_playing
    /\ \A k \in DOMAIN threads : threads[k].kind # "play"
    /\ written = <<>>

-----------------------------------------------------------------------------
(* Properties of the Calibration Store and its workflows, checked under SpecCal *)

\* a dict of the store or of the file is a complete 3-point record
RecordComplete(rec) == \A s \in Slots : s \in DOMAIN rec /\ rec[s] # None

\* every joint the mapping holds has a complete record
AllComplete(mapping) ==
    \A n \in DOMAIN mapping \cap Joints : RecordComplete(mapping[n])

\* C23: each joint's entry in the Calibration Store is absent or has left,
\* right and center all set, in memory at every moment and in the file each
\* time it is written.
C23_CompleteOrAbsent ==
    [][/\ AllComplete(calibrations')
       /\ calibration_file' # calibration_file => AllComplete(calibration_file'.data)]_vars

\* C24: the step of a successful auto-calibration that stores the joint's
\* record stores left = min, right = max, center = (min + max) div 2, and
\* the write that follows commands the joint to that midpoint.
C24_AutoStoresThreePoint ==
    [][/\ (cal.pc = "store" /\ cal'.pc = "persist")
          => calibrations'[cal_motor] =
                three_point(motor_id_of(cal_motor), cal.calib_min, cal.calib_max,
                            (cal.calib_min + cal.calib_max) \div 2)
       /\ (cal.pc = "center" /\ bus' # bus)
          => bus' = Append(bus, [register |-> "Goal_Position", motor |-> cal_motor,
                                 value |-> (cal.calib_min + cal.calib_max) \div 2])]_vars

\* the Goal_Position values the bus got for a joint
GoalsOf(motor_name, writes) ==
    { writes[n].value : n \in { w \in DOMAIN writes :
                                   /\ writes[w].motor = motor_name
                                   /\ writes[w].register = "Goal_Position" } }

\* C25: a joint whose sampled max is not above its sampled min is never
\* stored: the step that finds max <= min reports the failure, leaves the
\* store and the file as they are and moves on, the procedure goes on to
\* store only with max > min, and a joint reported so has been sent no goal
\* but the two extremes.
C25_FlatReadingRejected ==
    [][/\ \A n \in Joints :
            (calib_log'[n] = "max_le_min" /\ calib_log[n] # "max_le_min")
            => /\ calibrations' = calibrations
               /\ calibration_file' = calibration_file
               /\ cal.pc = "measure" /\ cal_motor = n
               /\ cal' = next_motor
               /\ GoalsOf(n, SubSeq(bus', Len(bus) + 1, Len(bus'))) \subseteq {0, 4095}
       /\ cal'.pc \in {"store", "persist", "center"}
            => cal'.calib_max > cal'.calib_min]_vars

\* C25 witness: shoulder_lift was driven to both extremes, sampled flat, and
\* is reported failed; the store does not hold it.
C25_Witness ==
    /\ calib_log["shoulder_lift"] = "max_le_min"
    /\ GoalsOf("shoulder_lift", bus) = {0, 4095}
    /\ "shoulder_lift" \notin DOMAIN calibrations
    /\ cal.pc = "idle"

\* C26: a bus failure during one joint's auto-calibration is reported for
\* that joint and ends that joint's procedure only: store and file stay as
\* they are and the thread goes on with the next joint of the batch.
C26_BusFailureSkipsJointOnly ==
    [][\A n \in Joints :
          (calib_log'[n] = "error" /\ calib_log[n] # "error")
          => /\ cal_motor = n
             /\ calibrations' = calibrations
             /\ calibration_file' = calibration_file
             /\ cal'.motors = Tail(cal.motors)
             /\ cal'.motors # <<>> => cal'.pc = "measure"]_vars

\* C26 witness: in a batch of two, the first joint failed on the bus and the
\* second one was calibrated all the same.
C26_Witness ==
    /\ calib_log["shoulder_pan"] = "error"
    /\ calib_log["shoulder_lift"] = "ok"
    /\ "shoulder_lift" \in DOMAIN calibrations
    /\ "shoulder_pan" \notin DOMAIN calibrations
    /\ cal.pc = "idle"

\* C27: the original statement.  A handler step that puts or changes a
\* joint's record in the store leaves a record with its three slots set, and
\* the file then holds that same record.
C27_StoredOnlyWhenComplete ==
    [][\A m \in Joints :
          (/\ is_connected /\ cal' = cal
           /\ m \in DOMAIN calibrations'
           /\ (m \notin DOMAIN calibrations \/ calibrations'[m] # calibrations[m]))
          => /\ RecordComplete(calibrations'[m])
             /\ m \in DOMAIN calibration_file'.data
             /\ calibration_file'.data[m] = calibrations'[m]]_vars

\* C28: the original statement.  A record of the store that has its three
\* slots set and stays in the store still has them set after any step.
C28_CompleteStaysComplete ==
    [][\A m \in Joints :
          (/\ m \in DOMAIN calibrations /\ RecordComplete(calibrations[m])
           /\ m \in DOMAIN calibrations')
          => RecordComplete(calibrations'[m])]_vars

\* C29: the original statement.  The step that removes a joint's record from
\* the store clears the joint's three slots and leaves a file without the joint.
C29_ResetRemovesEverywhere ==
    [][\A m \in Joints :
          (m \in DOMAIN calibrations /\ m \notin DOMAIN calibrations')
          => /\ calibration_data'[m] = empty_slots
             /\ m \notin DOMAIN calibration_file'.data]_vars

\* C30: loading gives every entry it accepts the entry's own center when it
\* has one, and the midpoint of its left and right, (left + right) div 2,
\* only when it has none; its own left and right are kept, and the legacy
\* min_position and max_position stand in for a left and right it lacks.
C30_CenterSynthesizedOnlyWhenAbsent ==
    [][(~is_connected /\ is_connected')
       => \A n \in DOMAIN calibrations' :
             LET calib_data == calibration_file.data[n]
                 loaded == calibrations'[n]
             IN  /\ dict_get(calib_data, "pos_left") # None
                    => loaded["pos_left"] = calib_data["pos_left"]
                 /\ dict_get(calib_data, "pos_right") # None
                    => loaded["pos_right"] = calib_data["pos_right"]
                 /\ (dict_get(calib_data, "pos_left") = None
                     /\ "min_position" \in DOMAIN calib_data)
                    => loaded["pos_left"] = calib_data["min_position"]
                 /\ (dict_get(calib_data, "pos_right") = None
                     /\ "max_position" \in DOMAIN calib_data)
                    => loaded["pos_right"] = calib_data["max_position"]
                 /\ dict_get(calib_data, "pos_center") # None
                    => loaded["pos_center"] = calib_data["pos_center"]
                 /\ dict_get(calib_data, "pos_center") = None
                    => loaded["pos_center"] =
                          (loaded["pos_left"] + loaded["pos_right"]) \div 2]_vars

\* C30 witness: a file with a legacy entry and a 3-point entry was loaded;
\* the first got the midpoint 2050, the second kept 4000, 100 and 50.
C30_Witness ==
    /\ is_connected
    /\ calibration_file.kind # "missing"
    /\ DOMAIN calibration_file.data = Joints
    /\ "min_position" \in DOMAIN calibration_file.data["shoulder_pan"]
    /\ DOMAIN calibrations = Joints
    /\ calibrations["shoulder_pan"] = three_point(1, 100, 4000, 2050)
    /\ calibration_file.data["shoulder_lift"] = three_point(2, 4000, 100, 50)
    /\ calibrations["shoulder_lift"] = three_point(2, 4000, 100, 50)

\* a mapping without the entries whose key is outside names
restricted_to(mapping, names) == [n \in DOMAIN mapping \cap names |-> mapping[n]]

\* C31: loading skips the entries whose joint name is not configured: the
\* store after the load holds configured joint names only, and it is the store
\* that loading the file without those entries gives.
C31_UnknownNamesSkipped ==
    [][(~is_connected /\ is_connected')
       => /\ DOMAIN calibrations' \subseteq Joints
          /\ calibration_file.kind # "missing"
             => calibrations' =
                   loaded_store(EmptyDict, restricted_to(calibration_file.data, Joints))]_vars

\* C31 witness: a file with two configured joints and an unknown one was
\* loaded; the store holds the two.
C31_Witness ==
    /\ is_connected
    /\ calibration_file.kind # "missing"
    /\ "unknown_joint" \in DOMAIN calibration_file.data
    /\ entry_complete(calibration_file.data["unknown_joint"])
    /\ DOMAIN calibrations = Joints

\* the sum of the last n items of a list of numbers
RECURSIVE SumOfLast(_, _)
SumOfLast(history, n) ==
    IF n = 0 THEN 0
    ELSE history[Len(history)] + SumOfLast(SubSeq(history, 1, Len(history) - 1), n - 1)

\* the registers written, in order, among the writes from the m-th on
RegistersFrom(writes, m) ==
    [n \in 1 .. Len(writes) - m + 1 |->
        <<writes[n + m - 1].register, writes[n + m - 1].value>>]

\* C35: the measuring part of a joint's auto-calibration writes, for that
\* joint and in this order, Torque_Enable, Goal_Position 0 and Goal_Position
\* 4095, or the first ones of these when the bus fails, and each extreme it
\* goes on with is the integer part of the mean of the last 5 of the 10
\* samples read after the command.
C35_MeasuringOrder ==
    [][cal.pc = "measure" /\ cal' # cal
       => /\ Len(bus') >= Len(bus) /\ SubSeq(bus', 1, Len(bus)) = bus
          /\ \A n \in Len(bus) + 1 .. Len(bus') : bus'[n].motor = cal_motor
          /\ RegistersFrom(bus', Len(bus) + 1) \in
                { <<>>,
                  << <<"Torque_Enable", 1>> >>,
                  << <<"Torque_Enable", 1>>, <<"Goal_Position", 0>> >>,
                  << <<"Torque_Enable", 1>>, <<"Goal_Position", 0>>,
                     <<"Goal_Position", 4095>> >> }
          /\ cal'.pc = "store"
             => /\ Len(bus') = Len(bus) + 3
                /\ Len(cal'.min_history) = 10 /\ Len(cal'.max_history) = 10
                /\ cal'.calib_min = SumOfLast(cal'.min_history, 5) \div 5
                /\ cal'.calib_max = SumOfLast(cal'.max_history, 5) \div 5]_vars

\* C35 witness: the joint was still moving during the first samples of both
\* extremes; the extremes are those of the last five.
C35_Witness ==
    /\ cal.pc = "store"
    /\ cal.min_history = Settling(100) /\ cal.max_history = Settling(4000)
    /\ cal.calib_min = 100 /\ cal.calib_max = 4000
    /\ RegistersFrom(bus, 1) = << <<"Torque_Enable", 1>>, <<"Goal_Position", 0>>,
                                  <<"Goal_Position", 4095>> >>

-----------------------------------------------------------------------------
(* Properties of the calls that go to a file, checked under SpecIo *)

\* C32: the original statement.  A call that meets a file it cannot read or
\* write does not raise, logs a message, and leaves the calibration mapping
\* and the frame buffer as they were.
C32_PersistenceFailureLoggedNotRaised ==
    [][(io' # io /\ io'.failed)
       => /\ io'.result # "raised"
          /\ io'.logged # ""
          /\ calibrations' = calibrations
          /\ recorded_frames' = recorded_frames]_vars

\* the store holds only 3-point records of configured joints: motor_id and
\* the three slots, none of them None
OnlyCompleteRecords(store) ==
    /\ DOMAIN store \subseteq Joints
    /\ \A n \in DOMAIN store :
          /\ DOMAIN store[n] = {"motor_id"} \cup Slots
          /\ \A k \in DOMAIN store[n] : store[n][k] # None

\* load_calibration_from_file run by a manager whose store is empty
loaded_into_empty(file) ==
    IF file.kind # "json" \/ file.data = EmptyDict
    THEN EmptyDict
    ELSE loaded_store(EmptyDict, file.data)

\* C40: persist followed by load is the identity on complete records.  When
\* save_calibration_to_file has written a store that holds only 3-point
\* records of configured joints, load_calibration_from_file run on that file
\* with an empty store gives the same joints with the same motor_id, left,
\* right and center.
C40_PersistThenLoadIsIdentity ==
    [][(io' # io /\ io'.op = "save_calibration_to_file" /\ ~io'.failed
        /\ OnlyCompleteRecords(calibrations))
       => loaded_into_empty(calibration_file') = calibrations]_vars

\* C40 witness: a store of two joints was written, one record with left
\* above right and one whose center is not the midpoint of left and right
C40_Witness ==
    /\ io.op = "save_calibration_to_file" /\ ~io.failed
    /\ calibration_file = save_calibration_to_file(calibrations)
    /\ OnlyCompleteRecords(calibrations)
    /\ DOMAIN calibrations = Joints
    /\ \E n \in Joints : calibrations[n]["pos_left"] > calibrations[n]["pos_right"]
    /\ \E n \in Joints :
          calibrations[n]["pos_center"]
             # (calibrations[n]["pos_left"] + calibrations[n]["pos_right"]) \div 2
    /\ loaded_into_empty(calibration_file) = calibrations

-----------------------------------------------------------------------------
(* Properties of setup_motors, checked under SpecSetup and SpecSetupFair *)

\* the request that was received
mappings == setup.motor_id_mappings

\* every ID of the request is within range
ValidIds ==
    \A n \in DOMAIN mappings : mappings[n][1] \in ServoIds /\ mappings[n][2] \in ServoIds

DistinctCurrent == Cardinality(current_ids_of(mappings)) = Len(mappings)
DistinctNew == Cardinality(new_ids_of(mappings)) = Len(mappings)

\* the servos the request names
MappingServos == DOMAIN servo_id \cap current_ids_of(mappings)

\* the operations of the request whose target no other operation shares
NotOffending ==
    { n \in DOMAIN mappings : \A k \in DOMAIN mappings : mappings[k][2] = mappings[n][2] => k = n }

\* C34: the original statement.  When the handler has answered a request
\* with duplicate target IDs, every operation that shares its target with no
\* other has been applied to its servo.
C34_Original ==
    (setup.pc = "done" /\ mappings # <<>> /\ ValidIds /\ ~DistinctNew)
    => \A n \in NotOffending :
          mappings[n][1] \in DOMAIN servo_id => servo_id[mappings[n][1]] = mappings[n][2]

\* C34, amended: a request with duplicate target IDs is refused as a whole:
\* the handler reports the duplicates at once, applies no change and every
\* servo keeps its ID.
C34_DuplicatesRefuseWholeRequest ==
    (setup.pc # "idle" /\ mappings # <<>> /\ ValidIds /\ ~DistinctNew)
    => /\ setup.pc = "done"
       /\ setup.result = "duplicate_new_ids"
       /\ setup.applied = <<>>
       /\ \A s \in DOMAIN servo_id : servo_id[s] = s

\* C34 witness: 1 -> 3 and 2 -> 3 share a target, 4 -> 2 does not; the
\* request was refused and servo 4 still holds 4.
C34_Witness ==
    /\ mappings = << <<1, 3>>, <<2, 3>>, <<4, 2>> >>
    /\ setup.result = "duplicate_new_ids"
    /\ DOMAIN servo_id = {1, 2, 4}
    /\ servo_id[4] = 4

\* C37: in a request with distinct current IDs and distinct new IDs whose
\* writes all reach their servo, no two servos of the request ever hold the
\* same ID, and a change to another ID is applied only when no servo of the
\* request holds that ID, the temporary ID included.
C37_NoTwoServosShareAnId ==
    [][(setup'.pc # "idle" /\ DistinctCurrent' /\ DistinctNew' /\ ValidIds' /\ ~setup'.lost)
       => /\ \A s, t \in MappingServos' : s # t => servo_id'[s] # servo_id'[t]
          /\ Len(setup'.applied) > Len(setup.applied)
             => LET change == setup'.applied[Len(setup'.applied)]
                IN  /\ change[1] # change[2]
                    /\ \A s \in MappingServos : servo_id[s] # change[2]
                    /\ change[2] = setup.temp_id \/ change[2] \in new_ids_of(mappings)
                    /\ setup.temp_id # None
                       => setup.temp_id \notin current_ids_of(mappings) \cup new_ids_of(mappings)]_vars

\* C37 witness: the swap 1 <-> 2 went through the temporary ID 3 and is done.
C37_Witness ==
    /\ mappings = << <<1, 2>>, <<2, 1>> >>
    /\ DOMAIN servo_id = {1, 2}
    /\ setup.applied = << <<1, 3>>, <<2, 1>>, <<3, 2>> >>
    /\ setup.pc = "done" /\ setup.result = "success"
    /\ servo_id[1] = 2 /\ servo_id[2] = 1

\* C38: a request with distinct current IDs and distinct new IDs, whose
\* servos are all on the line and which has a free temporary ID, ends with
\* the success answer and every servo holding its requested ID, unless a
\* write failed to reach its servo.
C38_ReassignmentCompletes ==
    (/\ setup.pc = "while" /\ setup.applied = <<>>
     /\ DistinctCurrent /\ DistinctNew
     /\ current_ids_of(mappings) \subseteq DOMAIN servo_id
     /\ setup.temp_id # None)
    ~> \/ setup.lost
       \/ /\ setup.pc = "done" /\ setup.result = "success"
          /\ \A n \in DOMAIN mappings :
                /\ mappings[n][1] \in DOMAIN servo_id
                /\ servo_id[mappings[n][1]] = mappings[n][2]

\* C38 witness: a swap and a self-mapping in one request, done.
C38_Witness ==
    /\ mappings = << <<1, 2>>, <<2, 1>>, <<3, 3>> >>
    /\ DOMAIN servo_id = {1, 2, 3}
    /\ ~setup.lost
    /\ setup.pc = "done" /\ setup.result = "success"
    /\ servo_id[1] = 2 /\ servo_id[2] = 1 /\ servo_id[3] = 3

-----------------------------------------------------------------------------
(* Properties of hold_current_positions_and_lock, checked under SpecHold *)

\* the writes of a register to a motor among the first n writes of the bus
WritesBefore(n, register, motor) ==
    { k \in 1 .. n - 1 : bus[k].register = register /\ bus[k].motor = motor }

\* C36: the original statement.  Torque is enabled on a motor only after a
\* Goal_Position was written to it, that goal is the position the motor
\* stands at, and a call that returns True has done both for every named motor.
C36_LockWithoutMotion ==
    /\ \A n \in DOMAIN bus :
          bus[n].register = "Torque_Enable"
          => /\ WritesBefore(n, "Goal_Position", bus[n].motor) # {}
             /\ \A k \in WritesBefore(n, "Goal_Position", bus[n].motor) :
                   bus[k].value = present[bus[n].motor]
    /\ hold.result = "True"
       => \A m \in names_of(hold.names) :
             \E n \in DOMAIN bus : bus[n].register = "Torque_Enable" /\ bus[n].motor = m

-----------------------------------------------------------------------------
(* Properties of the sliders, checked under SpecSlider *)

\* the command is in pending_positions
Pending(seq) == \E m \in DOMAIN pending_positions : pending_positions[m].seq = seq

\* a send_positions thread holds the command in positions_to_send and has
\* not reached its motor yet
InFlight(seq) ==
    \E k \in DOMAIN senders :
       /\ senders[k].pc \in {"clear", "send"}
       /\ \E m \in DOMAIN senders[k].positions_to_send :
             /\ senders[k].positions_to_send[m].seq = seq
             /\ senders[k].pc = "send" => \E n \in DOMAIN senders[k].todo : senders[k].todo[n] = m

\* C39: the original statement, as the safety property it rests on.  A
\* command issued with no call of enable_sliders after it is at every moment
\* waiting in pending_positions, held by a sender thread that still goes to
\* its motor, written, replaced by a later command of its motor, or passed
\* over with a logged error or overload.  A command that is none of these is
\* held nowhere, so no later step can write it.
C39_NoCommandLost ==
    \A seq \in (1 .. commands.issued) \ commands.excused :
       \/ Pending(seq)
       \/ InFlight(seq)
       \/ seq \in commands.written
       \/ seq \in commands.replaced
       \/ seq \in commands.reported
       \/ seq \in commands.skipped

====
